---- MODULE Spec2Model ----
(***************************************************************************)
(* State-machine model of the ssd statistics engine: the double-buffered   *)
(* ingest path and channel directory of StatisticService, the per-channel  *)
(* StatStore and PersonalStatStore, FingerprintRecord, and ColdStorage.    *)
(***************************************************************************)
EXTENDS Integers, Sequences, FiniteSets, TLC

VARIABLES
    \* configuration (fixed after construction)
    maxChannels, maxRecords, evictionPercent,
    maxFingerprints, maxRecordsPerFP, fingerprintTTL, coldTTL, coldOn,
    \* StatisticService
    activeIdx, buffers, prevBufSize, channels, cachedChannels,
    \* callers of AggregateStats / GetSnapshot (position and locals)
    pc, batch, cur, snap,
    \* ColdStorage
    index, pending, restored, loaded, disk,
    \* files of the data directory and the atomic write in progress
    fsys, wr,
    \* a FingerprintRecord on its own
    frec,
    \* the value a caller got from a query and still holds
    held,
    \* the Scheduler: opsMu, stopCh, the background goroutine and the caller
    \* of Init, Stop and Persist
    sched,
    \* the mutexes of the engine and the calls in progress that take them
    locks,
    \* wall clock
    now,
    \* history (not program state): number of events submitted, the non-empty
    \* batches drained, the events applied per channel (and whether two
    \* AggregateStats calls ever overlapped), the last operation
    nextSeq, drained, applied, hist

cfgVars  == <<maxChannels, maxRecords, evictionPercent, maxFingerprints,
              maxRecordsPerFP, fingerprintTTL, coldTTL, coldOn>>
bufVars  == <<activeIdx, buffers, prevBufSize>>
chanVars == <<channels, cachedChannels>>
procVars == <<pc, batch, cur, snap>>
coldVars == <<index, pending, restored, loaded, disk>>
fileVars == <<fsys, wr>>
logVars  == <<nextSeq, drained, applied>>
vars     == <<cfgVars, bufVars, chanVars, procVars, coldVars, fileVars, frec,
             held, sched, locks, now, logVars, hist>>

----------------------------------------------------------------------------
\* Bounds of the model

MaxEvents   == 3      \* events submitted over a run
MaxTime     == 2      \* clock readings 0..MaxTime
MaxCapCfg   == 2      \* largest configured cap (channels, records, fingerprints)
MaxColdOps  == 3      \* direct Evict / Restore calls and restarts over a run

\* Program constants
DefaultChannel == "default"
HalvingLimit   == 512
DefaultEvictionPercent == 10
DefaultMaxFingerprints == 100000

\* Name universes of the model
ChanNames == {"default", "a", "a/b", "b", "c"}
FPNames   == {"f1", "f2"}

----------------------------------------------------------------------------
\* Generic map helpers (Go maps are functions with a finite domain)

EmptyMap == [x \in {} |-> 0]

MapPut(m, k, v) == [x \in (DOMAIN m) \cup {k} |-> IF x = k THEN v ELSE m[x]]

MapDel(m, ks) == [x \in (DOMAIN m) \ ks |-> m[x]]

Len0(m) == Cardinality(DOMAIN m)

Min(a, b) == IF a < b THEN a ELSE b

\* sort.Strings over a set of names: the ascending sequence of its elements.
\* Channel names of the model are ordered as Go orders the strings.
NameRank(n) ==
    CASE n = "a" -> 1
      [] n = "a/b" -> 2
      [] n = "b" -> 3
      [] n = "c" -> 4
      [] n = "default" -> 5
      [] OTHER -> 0

RECURSIVE SortNames(_)
SortNames(S) ==
    IF S = {} THEN <<>>
    ELSE LET m == CHOOSE x \in S : \A y \in S : NameRank(x) <= NameRank(y)
         IN  <<m>> \o SortNames(S \ {m})

----------------------------------------------------------------------------
\* Content-ID parsing: strconv.Atoi followed by the uint32 range check

\* The tokens of the model and what Atoi returns for them.  "4294967296"
\* parses (64-bit int) to a key above math.MaxUint32; every other value the
\* model handles is far below it.
AtoiOk(tok) == tok \in {"1", "2", "3", "-1", "4294967296"}

AboveMaxUint32(tok) == tok = "4294967296"

AtoiVal(tok) ==
    CASE tok = "1" -> 1
      [] tok = "2" -> 2
      [] tok = "3" -> 3
      [] tok = "-1" -> 0 - 1
      [] OTHER -> 0

\* TRUE when the loop body `continue`s on this token
SkipToken(tok) ==
    \/ tok = ""
    \/ ~AtoiOk(tok)
    \/ AboveMaxUint32(tok)
    \/ AtoiVal(tok) < 0

\* id >= 0 && id <= math.MaxUint32 for the integers of the model
InUint32(id) == id >= 0

Rec(v, c, f) == [views |-> v, clicks |-> c, ftr |-> f]

----------------------------------------------------------------------------
\* StatStore (per-channel trend counters)

NewStatStore_pct(pct) == IF pct <= 0 THEN DefaultEvictionPercent ELSE pct

\* Variant: the target is rounded up
StatStore_target_ceil(maxR, pct) ==
    LET t == (maxR * pct + 99) \div 100 IN IF t <= 0 THEN 1 ELSE t

\* target := int(float64(maxRecords) * float64(evictionPercent) / 100.0): the
\* conversion truncates
StatStore_target(maxR, pct) ==
    LET t == (maxR * pct) \div 100 IN IF t <= 0 THEN 1 ELSE t

\* Variant: any target entries are deleted
StatStore_evict_any(data, maxR, pct) ==
    LET n == Min(StatStore_target(maxR, pct), Len0(data))
    IN  { MapDel(data, R) : R \in
            { S \in SUBSET (DOMAIN data) : Cardinality(S) = n } }

\* evict: sort ascending by views (ties in any order), delete the first target
StatStore_evict(data, maxR, pct) ==
    LET n == Min(StatStore_target(maxR, pct), Len0(data))
    IN  { MapDel(data, R) : R \in
            { S \in SUBSET (DOMAIN data) :
                /\ Cardinality(S) = n
                /\ \A r \in S : \A k \in (DOMAIN data) \ S :
                      data[r].views <= data[k].views } }

StatStore_evictIfNeeded(data, maxR, pct) ==
    IF maxR < 0 \/ Len0(data) < maxR
    THEN {data}
    ELSE StatStore_evict(data, maxR, pct)

\* Variant: the halved values are rounded down
Halve_floor(rec) ==
    IF rec.views > HalvingLimit
    THEN Rec(rec.views \div 2, rec.clicks \div 2, rec.ftr + 1)
    ELSE rec

\* Variant: the halving branch is missing
Halve_off(rec) == rec

Halve(rec) ==
    IF rec.views > HalvingLimit
    THEN Rec((rec.views + 1) \div 2, (rec.clicks + 1) \div 2, rec.ftr + 1)
    ELSE rec

StatStore_incView(data, tok, maxR, pct) ==
    IF SkipToken(tok) THEN {data}
    ELSE LET id == AtoiVal(tok) IN
         IF id \in DOMAIN data
         THEN { [data EXCEPT ![id] =
                    Halve(Rec(data[id].views + 1, data[id].clicks, data[id].ftr))] }
         ELSE { MapPut(d, id, Rec(1, 0, 0)) :
                    d \in StatStore_evictIfNeeded(data, maxR, pct) }

\* Variant: a click on an ID of the store overwrites its record
StatStore_incClick_reset(data, tok, maxR, pct) ==
    IF SkipToken(tok) THEN {data}
    ELSE LET id == AtoiVal(tok) IN
         { MapPut(d, id, Rec(0, 1, 0)) :
             d \in IF id \in DOMAIN data THEN {data}
                   ELSE StatStore_evictIfNeeded(data, maxR, pct) }

StatStore_incClick(data, tok, maxR, pct) ==
    IF SkipToken(tok) THEN {data}
    ELSE LET id == AtoiVal(tok) IN
         IF id \in DOMAIN data
         THEN { [data EXCEPT ![id] =
                    Rec(data[id].views, data[id].clicks + 1, data[id].ftr)] }
         ELSE { MapPut(d, id, Rec(0, 1, 0)) :
                    d \in StatStore_evictIfNeeded(data, maxR, pct) }

RECURSIVE StatStore_incViews(_, _, _, _)
StatStore_incViews(data, toks, maxR, pct) ==
    IF toks = <<>> THEN {data}
    ELSE UNION { StatStore_incViews(d, Tail(toks), maxR, pct) :
                    d \in StatStore_incView(data, Head(toks), maxR, pct) }

RECURSIVE StatStore_incClicks(_, _, _, _)
StatStore_incClicks(data, toks, maxR, pct) ==
    IF toks = <<>> THEN {data}
    ELSE UNION { StatStore_incClicks(d, Tail(toks), maxR, pct) :
                    d \in StatStore_incClick(data, Head(toks), maxR, pct) }

\* IncStats: all views, then all clicks, under the store's write lock.
\* The result is the set of stores the call can leave (eviction ties).
StatStore_IncStats(data, ev, maxR, pct) ==
    UNION { StatStore_incClicks(d, ev.clicks, maxR, pct) :
                d \in StatStore_incViews(data, ev.views, maxR, pct) }

----------------------------------------------------------------------------
\* FingerprintRecord (sparse per-fingerprint counters)

NewFingerprintRecord(t) ==
    [viewed |-> {}, clicked |-> {}, counts |-> EmptyMap, lastSeen |-> t]

\* evictRecords: keyed on the cardinality of the viewed bitmap; the score of
\* an ID is counts[id].views when it has a counts entry, else 1
FR_score(fr, id) == IF id \in DOMAIN fr.counts THEN fr.counts[id].views ELSE 1

FR_target(maxR, pct) ==
    LET t == (maxR * pct) \div 100 IN IF t <= 0 THEN 1 ELSE t

FR_evictRecords_bitmapsOnly(fr, maxR, pct) ==
    LET total == Cardinality(fr.viewed) IN
    IF maxR < 0 \/ total < maxR THEN {fr}
    ELSE LET n == Min(FR_target(maxR, pct), total) IN
         { [fr EXCEPT !.viewed  = fr.viewed \ S,
                      !.clicked = fr.clicked \ S] :
             S \in { T \in SUBSET fr.viewed :
                       /\ Cardinality(T) = n
                       /\ \A r \in T : \A k \in fr.viewed \ T :
                             FR_score(fr, r) <= FR_score(fr, k) } }

FR_evictRecords(fr, maxR, pct) ==
    LET total == Cardinality(fr.viewed) IN
    IF maxR < 0 \/ total < maxR THEN {fr}
    ELSE LET n == Min(FR_target(maxR, pct), total) IN
         { [fr EXCEPT !.viewed  = fr.viewed \ S,
                      !.clicked = fr.clicked \ S,
                      !.counts  = MapDel(fr.counts, S)] :
             S \in { T \in SUBSET fr.viewed :
                       /\ Cardinality(T) = n
                       /\ \A r \in T : \A k \in fr.viewed \ T :
                             FR_score(fr, r) <= FR_score(fr, k) } }

\* Variant: a repeated view of a bitmap-only ID forgets its click
FR_incView_promoteNoClick(fr, tok, maxR, pct) ==
    IF SkipToken(tok) THEN {fr}
    ELSE LET id == AtoiVal(tok) IN
         IF id \in fr.viewed
         THEN IF id \in DOMAIN fr.counts
              THEN { [fr EXCEPT !.counts[id] =
                        Halve(Rec(fr.counts[id].views + 1, fr.counts[id].clicks,
                                  fr.counts[id].ftr))] }
              ELSE { [fr EXCEPT !.counts = MapPut(fr.counts, id, Rec(2, 0, 0))] }
         ELSE { IF id \in DOMAIN f.counts
                THEN [f EXCEPT !.viewed = f.viewed \cup {id},
                               !.counts[id] = Rec(1, f.counts[id].clicks,
                                                  f.counts[id].ftr)]
                ELSE [f EXCEPT !.viewed = f.viewed \cup {id}] :
                  f \in FR_evictRecords(fr, maxR, pct) }

FR_incView(fr, tok, maxR, pct) ==
    IF SkipToken(tok) THEN {fr}
    ELSE LET id == AtoiVal(tok) IN
         IF id \in fr.viewed
         THEN IF id \in DOMAIN fr.counts
              THEN { [fr EXCEPT !.counts[id] =
                        Halve(Rec(fr.counts[id].views + 1, fr.counts[id].clicks,
                                  fr.counts[id].ftr))] }
              ELSE { [fr EXCEPT !.counts =
                        MapPut(fr.counts, id,
                               Rec(2, IF id \in fr.clicked THEN 1 ELSE 0, 0))] }
         ELSE { IF id \in DOMAIN f.counts
                THEN [f EXCEPT !.viewed = f.viewed \cup {id},
                               !.counts[id] = Rec(1, f.counts[id].clicks,
                                                  f.counts[id].ftr)]
                ELSE [f EXCEPT !.viewed = f.viewed \cup {id}] :
                  f \in FR_evictRecords(fr, maxR, pct) }

FR_incClick(fr, tok) ==
    IF SkipToken(tok) THEN fr
    ELSE LET id == AtoiVal(tok) IN
         IF id \in fr.clicked
         THEN IF id \in DOMAIN fr.counts
              THEN [fr EXCEPT !.counts[id] =
                        Rec(fr.counts[id].views, fr.counts[id].clicks + 1,
                            fr.counts[id].ftr)]
              ELSE [fr EXCEPT !.counts =
                        MapPut(fr.counts, id,
                               Rec(IF id \in fr.viewed THEN 1 ELSE 0, 2, 0))]
         ELSE IF id \in DOMAIN fr.counts
              THEN [fr EXCEPT !.clicked = fr.clicked \cup {id},
                              !.counts[id] = Rec(fr.counts[id].views, 1,
                                                 fr.counts[id].ftr)]
              ELSE [fr EXCEPT !.clicked = fr.clicked \cup {id}]

RECURSIVE FR_incViews(_, _, _, _)
FR_incViews(fr, toks, maxR, pct) ==
    IF toks = <<>> THEN {fr}
    ELSE UNION { FR_incViews(f, Tail(toks), maxR, pct) :
                    f \in FR_incView(fr, Head(toks), maxR, pct) }

RECURSIVE FR_incClicks(_, _)
FR_incClicks(fr, toks) ==
    IF toks = <<>> THEN fr
    ELSE FR_incClicks(FR_incClick(fr, Head(toks)), Tail(toks))

\* IncStats: refresh lastSeen, then views, then clicks, under the record lock
FR_IncStats(fr, ev, maxR, pct, t) ==
    { FR_incClicks(f, ev.clicks) :
        f \in FR_incViews([fr EXCEPT !.lastSeen = t], ev.views, maxR, pct) }

FR_GetData_noClick(fr) ==
    [id \in fr.viewed \cup fr.clicked |->
        IF id \in fr.viewed
        THEN IF id \in DOMAIN fr.counts THEN fr.counts[id] ELSE Rec(1, 0, 0)
        ELSE IF id \in DOMAIN fr.counts THEN fr.counts[id] ELSE Rec(0, 1, 0)]

\* buildData / GetData: pass 1 over viewed, pass 2 over clicked
FR_GetData(fr) ==
    [id \in fr.viewed \cup fr.clicked |->
        IF id \in fr.viewed
        THEN IF id \in DOMAIN fr.counts
             THEN fr.counts[id]
             ELSE Rec(1, IF id \in fr.clicked THEN 1 ELSE 0, 0)
        ELSE IF id \in DOMAIN fr.counts
             THEN fr.counts[id]
             ELSE Rec(0, 1, 0)]

dataToFingerprintRecord_dense(data, t) ==
    LET ok == { id \in DOMAIN data : InUint32(id) } IN
    [viewed   |-> { id \in ok : data[id].views > 0 },
     clicked  |-> { id \in ok : data[id].clicks > 0 },
     counts   |-> [id \in ok |-> data[id]],
     lastSeen |-> t]

\* Variant: a record with ftr > 0 alone gets no counts entry
dataToFingerprintRecord_noFtr(data, t) ==
    LET ok == { id \in DOMAIN data : InUint32(id) } IN
    [viewed   |-> { id \in ok : data[id].views > 0 },
     clicked  |-> { id \in ok : data[id].clicks > 0 },
     counts   |-> [id \in { i \in ok : \/ data[i].views > 1
                                       \/ data[i].clicks > 1 } |-> data[id]],
     lastSeen |-> t]

\* dataToFingerprintRecord: re-encode a dense map into the sparse form
dataToFingerprintRecord(data, t) ==
    LET ok == { id \in DOMAIN data : InUint32(id) } IN
    [viewed   |-> { id \in ok : data[id].views > 0 },
     clicked  |-> { id \in ok : data[id].clicks > 0 },
     counts   |-> [id \in { i \in ok : \/ data[i].views > 1
                                       \/ data[i].clicks > 1
                                       \/ data[i].ftr > 0 } |-> data[id]],
     lastSeen |-> t]

----------------------------------------------------------------------------
\* ColdStorage.  cs is the in-memory state [index, pending, restored, loaded],
\* dsk the cold directory: per channel, whether {channel}.cold.zst exists and
\* its (compressed JSON) content.

NoColdFile == [has |-> FALSE, entries |-> EmptyMap]
NoDiskFile == [has |-> FALSE, bytes |-> {}]

NewColdStorage ==
    [index    |-> [c \in ChanNames |-> {}],
     pending  |-> [c \in ChanNames |-> EmptyMap],
     restored |-> [c \in ChanNames |-> {}],
     loaded   |-> [c \in ChanNames |-> NoColdFile]]

\* json.Marshal of a ColdFile: one item per fingerprint, the data flattened to
\* (id, Views, Clicks, Ftr) tuples
EncodeData(data) ==
    { <<id, data[id].views, data[id].clicks, data[id].ftr>> : id \in DOMAIN data }

DecodeData(items) ==
    [id \in { it[1] : it \in items } |->
        LET it == CHOOSE x \in items : x[1] = id IN Rec(it[2], it[3], it[4])]

EncodeColdFile(entries) ==
    { <<fp, entries[fp].evictedAt, EncodeData(entries[fp].data)>> :
        fp \in DOMAIN entries }

DecodeColdFile(bytes) ==
    [fp \in { b[1] : b \in bytes } |->
        LET b == CHOOSE x \in bytes : x[1] = fp
        IN  [data |-> DecodeData(b[3]), evictedAt |-> b[2]]]

Cold_Has(cs, ch, fp) == fp \in cs.index[ch]

Cold_Evict(cs, ch, fp, data, t) ==
    [cs EXCEPT !.pending[ch] = MapPut(cs.pending[ch], fp,
                                      [data |-> data, evictedAt |-> t]),
               !.index[ch]   = cs.index[ch] \cup {fp}]

\* loadColdFileFromDisk: nil when the file does not exist
Cold_loadColdFileFromDisk(dsk, ch) ==
    IF dsk[ch].has
    THEN [has |-> TRUE, entries |-> DecodeColdFile(dsk[ch].bytes)]
    ELSE NoColdFile

\* getOrLoadColdFile: the cached file, else the file from disk (then cached)
Cold_getOrLoadColdFile(cs, dsk, ch) ==
    IF cs.loaded[ch].has THEN cs.loaded[ch] ELSE Cold_loadColdFileFromDisk(dsk, ch)

\* Variant: Restore hands the data out and leaves the index entry
Cold_Restore_keepIndex(cs, dsk, ch, fp) ==
    IF fp \in DOMAIN cs.pending[ch]
    THEN [cs   |-> [cs EXCEPT !.pending[ch] = MapDel(cs.pending[ch], {fp})],
          ok   |-> TRUE,
          data |-> cs.pending[ch][fp].data]
    ELSE LET cf == Cold_getOrLoadColdFile(cs, dsk, ch) IN
         IF ~cf.has \/ fp \notin DOMAIN cf.entries
         THEN [cs   |-> [cs EXCEPT !.loaded[ch] = cf,
                                   !.index[ch]  = cs.index[ch] \ {fp}],
               ok   |-> FALSE,
               data |-> EmptyMap]
         ELSE [cs   |-> [cs EXCEPT !.loaded[ch]   = cf,
                                   !.restored[ch] = cs.restored[ch] \cup {fp}],
               ok   |-> TRUE,
               data |-> cf.entries[fp].data]

\* Restore: [cs |-> state after, ok |-> data found, data |-> the dense map]
Cold_Restore(cs, dsk, ch, fp) ==
    IF fp \in DOMAIN cs.pending[ch]
    THEN [cs   |-> [cs EXCEPT !.pending[ch] = MapDel(cs.pending[ch], {fp}),
                              !.index[ch]   = cs.index[ch] \ {fp}],
          ok   |-> TRUE,
          data |-> cs.pending[ch][fp].data]
    ELSE LET cf == Cold_getOrLoadColdFile(cs, dsk, ch) IN
         IF ~cf.has \/ fp \notin DOMAIN cf.entries
         THEN [cs   |-> [cs EXCEPT !.loaded[ch] = cf,
                                   !.index[ch]  = cs.index[ch] \ {fp}],
               ok   |-> FALSE,
               data |-> EmptyMap]
         ELSE [cs   |-> [cs EXCEPT !.loaded[ch]   = cf,
                                   !.restored[ch] = cs.restored[ch] \cup {fp},
                                   !.index[ch]    = cs.index[ch] \ {fp}],
               ok   |-> TRUE,
               data |-> cf.entries[fp].data]

\* Variant: the channel is committed (pending and restored cleared) before
\* the outcome of the write is looked at
Cold_flushChannel_commitFirst(cs, dsk, ch, t, ttl, writeOk) ==
    LET base    == Cold_getOrLoadColdFile(cs, dsk, ch)
        e1      == MapDel(base.entries, cs.restored[ch])
        e2      == [fp \in (DOMAIN e1) \cup (DOMAIN cs.pending[ch]) |->
                       IF fp \in DOMAIN cs.pending[ch]
                       THEN cs.pending[ch][fp] ELSE e1[fp]]
        expired == IF ttl > 0
                   THEN { fp \in DOMAIN e2 : t - e2[fp].evictedAt > ttl }
                   ELSE {}
        e3      == MapDel(e2, expired)
        idx     == [cs.index EXCEPT ![ch] = cs.index[ch] \ expired]
        \* the cached file object is edited in place before the write
        cached  == IF base.has THEN [has |-> TRUE, entries |-> e3]
                   ELSE cs.loaded[ch]
    IN  IF Len0(e3) > 0
        THEN IF writeOk
             THEN [cs  |-> [cs EXCEPT !.index = idx,
                                      !.loaded[ch] = [has |-> TRUE, entries |-> e3],
                                      !.pending[ch] = EmptyMap,
                                      !.restored[ch] = {}],
                   dsk |-> [dsk EXCEPT ![ch] =
                               [has |-> TRUE, bytes |-> EncodeColdFile(e3)]],
                   err |-> FALSE]
             ELSE [cs  |-> [cs EXCEPT !.index = idx, !.loaded[ch] = cached,
                                      !.pending[ch] = EmptyMap,
                                      !.restored[ch] = {}],
                   dsk |-> dsk,
                   err |-> TRUE]
        ELSE [cs  |-> [cs EXCEPT !.index = idx,
                                 !.loaded[ch] = NoColdFile,
                                 !.pending[ch] = EmptyMap,
                                 !.restored[ch] = {}],
              dsk |-> [dsk EXCEPT ![ch] = NoDiskFile],
              err |-> FALSE]

\* Variant: the entries marked restored are not deleted from the file
Cold_flushChannel_keepRestored(cs, dsk, ch, t, ttl, writeOk) ==
    LET base    == Cold_getOrLoadColdFile(cs, dsk, ch)
        e1      == base.entries
        e2      == [fp \in (DOMAIN e1) \cup (DOMAIN cs.pending[ch]) |->
                       IF fp \in DOMAIN cs.pending[ch]
                       THEN cs.pending[ch][fp] ELSE e1[fp]]
        expired == IF ttl > 0
                   THEN { fp \in DOMAIN e2 : t - e2[fp].evictedAt > ttl }
                   ELSE {}
        e3      == MapDel(e2, expired)
        idx     == [cs.index EXCEPT ![ch] = cs.index[ch] \ expired]
        \* the cached file object is edited in place before the write
        cached  == IF base.has THEN [has |-> TRUE, entries |-> e3]
                   ELSE cs.loaded[ch]
    IN  IF Len0(e3) > 0
        THEN IF writeOk
             THEN [cs  |-> [cs EXCEPT !.index = idx,
                                      !.loaded[ch] = [has |-> TRUE, entries |-> e3],
                                      !.pending[ch] = EmptyMap,
                                      !.restored[ch] = {}],
                   dsk |-> [dsk EXCEPT ![ch] =
                               [has |-> TRUE, bytes |-> EncodeColdFile(e3)]],
                   err |-> FALSE]
             ELSE [cs  |-> [cs EXCEPT !.index = idx, !.loaded[ch] = cached],
                   dsk |-> dsk,
                   err |-> TRUE]
        ELSE [cs  |-> [cs EXCEPT !.index = idx,
                                 !.loaded[ch] = NoColdFile,
                                 !.pending[ch] = EmptyMap,
                                 !.restored[ch] = {}],
              dsk |-> [dsk EXCEPT ![ch] = NoDiskFile],
              err |-> FALSE]

\* One iteration of Flush's loop for a channel.  writeOk is the outcome of
\* writeColdFile.  Result: [cs, dsk, err].
Cold_flushChannel(cs, dsk, ch, t, ttl, writeOk) ==
    LET base    == Cold_getOrLoadColdFile(cs, dsk, ch)
        e1      == MapDel(base.entries, cs.restored[ch])
        e2      == [fp \in (DOMAIN e1) \cup (DOMAIN cs.pending[ch]) |->
                       IF fp \in DOMAIN cs.pending[ch]
                       THEN cs.pending[ch][fp] ELSE e1[fp]]
        expired == IF ttl > 0
                   THEN { fp \in DOMAIN e2 : t - e2[fp].evictedAt > ttl }
                   ELSE {}
        e3      == MapDel(e2, expired)
        idx     == [cs.index EXCEPT ![ch] = cs.index[ch] \ expired]
        \* the cached file object is edited in place before the write
        cached  == IF base.has THEN [has |-> TRUE, entries |-> e3]
                   ELSE cs.loaded[ch]
    IN  IF Len0(e3) > 0
        THEN IF writeOk
             THEN [cs  |-> [cs EXCEPT !.index = idx,
                                      !.loaded[ch] = [has |-> TRUE, entries |-> e3],
                                      !.pending[ch] = EmptyMap,
                                      !.restored[ch] = {}],
                   dsk |-> [dsk EXCEPT ![ch] =
                               [has |-> TRUE, bytes |-> EncodeColdFile(e3)]],
                   err |-> FALSE]
             ELSE [cs  |-> [cs EXCEPT !.index = idx, !.loaded[ch] = cached],
                   dsk |-> dsk,
                   err |-> TRUE]
        ELSE [cs  |-> [cs EXCEPT !.index = idx,
                                 !.loaded[ch] = NoColdFile,
                                 !.pending[ch] = EmptyMap,
                                 !.restored[ch] = {}],
              dsk |-> [dsk EXCEPT ![ch] = NoDiskFile],
              err |-> FALSE]

\* The channels Flush visits: those with pending or restored entries
Cold_flushChannels(cs) ==
    { c \in ChanNames : Len0(cs.pending[c]) > 0 \/ cs.restored[c] # {} }

\* Flush over the channels in the order `order` (Go ranges over the map in any
\* order); failing is the set of channels whose write fails.  Returns early on
\* the first error.
RECURSIVE Cold_flushLoop(_, _, _, _, _, _)
Cold_flushLoop(cs, dsk, order, t, ttl, failing) ==
    IF order = <<>> THEN [cs |-> cs, dsk |-> dsk, err |-> FALSE]
    ELSE LET r == Cold_flushChannel(cs, dsk, Head(order), t, ttl,
                                    Head(order) \notin failing)
         IN  IF r.err THEN r
             ELSE Cold_flushLoop(r.cs, r.dsk, Tail(order), t, ttl, failing)

\* All orders in which a set can be ranged over
RECURSIVE Orders(_)
Orders(S) ==
    IF S = {} THEN { <<>> }
    ELSE UNION { { <<x>> \o o : o \in Orders(S \ {x}) } : x \in S }

Cold_Flush(cs, dsk, t, ttl, failing) ==
    { Cold_flushLoop(cs, dsk, o, t, ttl, failing) :
        o \in Orders(Cold_flushChannels(cs)) }

\* coldFilePath: filepath.Join(dir, channel + ".cold.zst").  A channel name
\* holding a path separator names a file in a subdirectory of dir.
InSubdirectory(ch) == ch = "a/b"

\* The files filepath.Glob(dir/*.cold.zst) returns, by the channel that wrote
\* them: the pattern matches the entries of dir itself only
Cold_globFiles(dsk) == { c \in ChanNames : dsk[c].has /\ ~InSubdirectory(c) }

\* RestoreIndex: rebuild index[channel] from the keys of every cold file found
\* (extractChannelName gives back the name of a file of dir itself)
Cold_RestoreIndex(cs, dsk) ==
    [cs EXCEPT !.index = [c \in ChanNames |->
        IF c \in Cold_globFiles(dsk)
        THEN DOMAIN Cold_loadColdFileFromDisk(dsk, c).entries
        ELSE cs.index[c]]]

----------------------------------------------------------------------------
\* PersonalStatStore (per-channel fingerprint directory)

NewPersonalStatStore_max(maxFP) ==
    IF maxFP = 0 THEN DefaultMaxFingerprints ELSE maxFP

\* tryRestoreFromCold: [cs |-> cold state after, ok |-> a record was rebuilt,
\* rec |-> the record]
PSS_tryRestoreFromCold(cs, dsk, on, ch, fp, t) ==
    IF ~on \/ ~Cold_Has(cs, ch, fp)
    THEN [cs |-> cs, ok |-> FALSE, rec |-> NewFingerprintRecord(t)]
    ELSE LET r == Cold_Restore(cs, dsk, ch, fp) IN
         [cs  |-> r.cs,
          ok  |-> r.ok,
          rec |-> IF r.ok THEN dataToFingerprintRecord(r.data, t)
                  ELSE NewFingerprintRecord(t)]

\* The slow path of IncStats, under the directory write lock: double-check,
\* cold restore, limit check, insert.
\* [fps |-> directory after, cs |-> cold state after, ok |-> a record exists,
\*  fromCold |-> the record was rebuilt from cold data]
PSS_slowPath_noRestore(fps, cs, dsk, on, ch, fp, maxFP, t) ==
    IF fp \in DOMAIN fps
    THEN [fps |-> fps, cs |-> cs, ok |-> TRUE, fromCold |-> FALSE]
    ELSE IF maxFP >= 0 /\ Len0(fps) >= maxFP
         THEN [fps |-> fps, cs |-> cs, ok |-> FALSE, fromCold |-> FALSE]
         ELSE [fps |-> MapPut(fps, fp, NewFingerprintRecord(t)),
               cs |-> cs, ok |-> TRUE, fromCold |-> FALSE]

\* Variant: a refusal at the cap empties the directory
PSS_slowPath_refuseClears(fps, cs, dsk, on, ch, fp, maxFP, t) ==
    IF fp \in DOMAIN fps
    THEN [fps |-> fps, cs |-> cs, ok |-> TRUE, fromCold |-> FALSE]
    ELSE LET r == PSS_tryRestoreFromCold(cs, dsk, on, ch, fp, t) IN
         IF r.ok
         THEN [fps |-> MapPut(fps, fp, r.rec), cs |-> r.cs, ok |-> TRUE,
               fromCold |-> TRUE]
         ELSE IF maxFP >= 0 /\ Len0(fps) >= maxFP
              THEN [fps |-> EmptyMap, cs |-> r.cs, ok |-> FALSE,
                    fromCold |-> FALSE]
              ELSE [fps |-> MapPut(fps, fp, NewFingerprintRecord(t)),
                    cs |-> r.cs, ok |-> TRUE, fromCold |-> FALSE]

\* Variant: the fingerprint limit is not checked
PSS_slowPath_noLimit(fps, cs, dsk, on, ch, fp, maxFP, t) ==
    IF fp \in DOMAIN fps
    THEN [fps |-> fps, cs |-> cs, ok |-> TRUE, fromCold |-> FALSE]
    ELSE LET r == PSS_tryRestoreFromCold(cs, dsk, on, ch, fp, t) IN
         IF r.ok
         THEN [fps |-> MapPut(fps, fp, r.rec), cs |-> r.cs, ok |-> TRUE,
               fromCold |-> TRUE]
         ELSE [fps |-> MapPut(fps, fp, NewFingerprintRecord(t)),
               cs |-> r.cs, ok |-> TRUE, fromCold |-> FALSE]

PSS_slowPath(fps, cs, dsk, on, ch, fp, maxFP, t) ==
    IF fp \in DOMAIN fps
    THEN [fps |-> fps, cs |-> cs, ok |-> TRUE, fromCold |-> FALSE]
    ELSE LET r == PSS_tryRestoreFromCold(cs, dsk, on, ch, fp, t) IN
         IF r.ok
         THEN [fps |-> MapPut(fps, fp, r.rec), cs |-> r.cs, ok |-> TRUE,
               fromCold |-> TRUE]
         ELSE IF maxFP >= 0 /\ Len0(fps) >= maxFP
              THEN [fps |-> fps, cs |-> r.cs, ok |-> FALSE, fromCold |-> FALSE]
              ELSE [fps |-> MapPut(fps, fp, NewFingerprintRecord(t)),
                    cs |-> r.cs, ok |-> TRUE, fromCold |-> FALSE]

\* EvictExpired: hand every expired record's data to cold storage (when
\* attached) and delete it from the directory
PSS_expired(fps, ttl, t) ==
    IF ttl <= 0 THEN {}
    ELSE { fp \in DOMAIN fps : t - fps[fp].lastSeen > ttl }

RECURSIVE PSS_evictAll(_, _, _, _, _)
PSS_evictAll(cs, fps, fpset, ch, t) ==
    IF fpset = {} THEN cs
    ELSE LET fp == CHOOSE x \in fpset : TRUE IN
         PSS_evictAll(Cold_Evict(cs, ch, fp, FR_GetData(fps[fp]), t),
                      fps, fpset \ {fp}, ch, t)

\* Variant: expired records are deleted without being handed to cold storage
PSS_EvictExpired_drop(fps, cs, on, ch, ttl, t) ==
    LET ex == PSS_expired(fps, ttl, t) IN
    [fps |-> MapDel(fps, ex),
     cs  |-> cs]

PSS_EvictExpired(fps, cs, on, ch, ttl, t) ==
    LET ex == PSS_expired(fps, ttl, t) IN
    [fps |-> MapDel(fps, ex),
     cs  |-> IF on THEN PSS_evictAll(cs, fps, ex, ch, t) ELSE cs]

----------------------------------------------------------------------------
\* StatisticService

CS == [index |-> index, pending |-> pending, restored |-> restored,
       loaded |-> loaded]

SetCS(c) ==
    /\ index' = c.index
    /\ pending' = c.pending
    /\ restored' = c.restored
    /\ loaded' = c.loaded

NewChannelData == [statistic |-> EmptyMap, personalStats |-> EmptyMap]

\* Variant: the cap is compared with > instead of >=
getOrCreateChannel_gt(chs, name, maxCh) ==
    IF name \in DOMAIN chs THEN [channels |-> chs, ok |-> TRUE]
    ELSE IF Len0(chs) > maxCh THEN [channels |-> chs, ok |-> FALSE]
    ELSE [channels |-> MapPut(chs, name, [statistic |-> EmptyMap,
                                          personalStats |-> EmptyMap]),
          ok |-> TRUE]

\* Variant: no cap check on the slow path
getOrCreateChannel_nocap(chs, name, maxCh) ==
    IF name \in DOMAIN chs THEN [channels |-> chs, ok |-> TRUE]
    ELSE [channels |-> MapPut(chs, name, [statistic |-> EmptyMap,
                                          personalStats |-> EmptyMap]),
          ok |-> TRUE]

\* Variant: a full directory gives up one of its channels for the new one
getOrCreateChannel_replace(chs, name, maxCh) ==
    IF name \in DOMAIN chs THEN [channels |-> chs, ok |-> TRUE]
    ELSE IF Len0(chs) >= maxCh
         THEN IF chs = EmptyMap THEN [channels |-> chs, ok |-> FALSE]
              ELSE [channels |->
                       MapPut(MapDel(chs, {CHOOSE c \in DOMAIN chs : TRUE}),
                              name, NewChannelData),
                    ok |-> TRUE]
    ELSE [channels |-> MapPut(chs, name, NewChannelData), ok |-> TRUE]

\* getOrCreateChannel under the write lock: double-check, cap, allocate.
\* [channels |-> directory after, ok |-> a channel was returned]
getOrCreateChannel(chs, name, maxCh) ==
    IF name \in DOMAIN chs THEN [channels |-> chs, ok |-> TRUE]
    ELSE IF Len0(chs) >= maxCh THEN [channels |-> chs, ok |-> FALSE]
    ELSE [channels |-> MapPut(chs, name, NewChannelData), ok |-> TRUE]

rebuildChannelCache(chs) == SortNames(DOMAIN chs)

\* NewStatisticService: empty directory, then getOrCreateChannel("default")
NewStatisticService_channels(maxCh) ==
    getOrCreateChannel(EmptyMap, DefaultChannel, maxCh).channels

\* Variant: the new item is put in front of the buffer
AddStats_prepend(bufs, idx, ev) == [bufs EXCEPT ![idx] = <<ev>> \o bufs[idx]]

\* AddStats critical section: append to the active buffer
AddStats_append(bufs, idx, ev) == [bufs EXCEPT ![idx] = Append(bufs[idx], ev)]

\* Variant: the drained slot is not reset to nil
AggregateStats_drain_keep(idx, bufs, prev) ==
    LET newIdx   == 1 - idx
        inactive == 1 - newIdx
        data     == bufs[inactive]
    IN  [activeIdx   |-> newIdx,
         buffers     |-> bufs,
         prevBufSize |-> IF Len(data) > 0 THEN Len(data) ELSE prev,
         data        |-> data]

\* Variant: prevBufSize is set from every batch, empty ones too
AggregateStats_drain_always(idx, bufs, prev) ==
    LET newIdx   == 1 - idx
        inactive == 1 - newIdx
        data     == bufs[inactive]
    IN  [activeIdx   |-> newIdx,
         buffers     |-> [bufs EXCEPT ![inactive] = <<>>],
         prevBufSize |-> Len(data),
         data        |-> data]

\* AggregateStats critical section: toggle, take the inactive slot, clear it
AggregateStats_drain(idx, bufs, prev) ==
    LET newIdx   == 1 - idx
        inactive == 1 - newIdx
        data     == bufs[inactive]
    IN  [activeIdx   |-> newIdx,
         buffers     |-> [bufs EXCEPT ![inactive] = <<>>],
         prevBufSize |-> IF Len(data) > 0 THEN Len(data) ELSE prev,
         data        |-> data]

ChanOf(ev) == IF ev.channel = "" THEN DefaultChannel ELSE ev.channel

----------------------------------------------------------------------------
\* Callers.  Aggs call AggregateStats; one reader calls GetSnapshot.

Aggs == {"g1", "g2"}

IdleSnap == [pc |-> "idle", todo |-> {}, phase |-> "trend", out |-> EmptyMap]

\* the event an aggregator is working on
CurEv(p) == Head(batch[p])

SetChannel(ch, field, val) == channels' = [channels EXCEPT ![ch][field] = val]

\* AddStats(ev): one critical section under ss.mu
AddStats(ev) ==
    /\ nextSeq <= MaxEvents
    /\ LET e == [seq |-> nextSeq, channel |-> ev.channel,
                 fingerprint |-> ev.fingerprint,
                 views |-> ev.views, clicks |-> ev.clicks]
       IN  buffers' = AddStats_append(buffers, activeIdx, e)
    /\ nextSeq' = nextSeq + 1
    /\ hist' = [op |-> "AddStats"]
    /\ UNCHANGED <<cfgVars, locks, sched, fileVars, frec, held, activeIdx, prevBufSize, chanVars, procVars,
                   coldVars, now, drained, applied>>

\* AggregateStats, first part: swap the buffers under ss.mu
AggDrain_do(p) ==
    /\ pc[p] = "idle"
    /\ LET r == AggregateStats_drain(activeIdx, buffers, prevBufSize) IN
        /\ activeIdx' = r.activeIdx
        /\ buffers' = r.buffers
        /\ prevBufSize' = r.prevBufSize
        /\ batch' = [batch EXCEPT ![p] = r.data]
        /\ drained' = IF r.data = <<>> THEN drained ELSE Append(drained, r.data)
        /\ hist' = [op |-> "AggDrain", n |-> Len(r.data)]
    /\ applied' = [applied EXCEPT
                      !.overlap = @ \/ (\E q \in Aggs \ {p} : pc[q] # "idle")]
    /\ pc' = [pc EXCEPT ![p] = "loop"]
    /\ UNCHANGED <<cfgVars, locks, fileVars, frec, held, chanVars, cur, snap, coldVars, now, nextSeq>>

AggDrain(p) == AggDrain_do(p) /\ UNCHANGED sched

\* Loop head and the read-locked fast path of getOrCreateChannel
AggLoop(p) ==
    /\ pc[p] = "loop"
    /\ IF batch[p] = <<>>
       THEN pc' = [pc EXCEPT ![p] = "idle"]
       ELSE IF ChanOf(CurEv(p)) \in DOMAIN channels
            THEN pc' = [pc EXCEPT ![p] = "stat"]
            ELSE pc' = [pc EXCEPT ![p] = "slow"]
    /\ hist' = [op |-> "AggLoop"]
    /\ UNCHANGED <<cfgVars, locks, sched, fileVars, frec, held, bufVars, chanVars, batch, cur, snap, coldVars,
                   now, logVars>>

\* The write-locked slow path of getOrCreateChannel; a nil channel skips the
\* event.  The write lock excludes a GetSnapshot in progress.
AggSlow(p) ==
    /\ pc[p] = "slow"
    /\ snap.pc = "idle"
    /\ LET r == getOrCreateChannel(channels, ChanOf(CurEv(p)), maxChannels) IN
        /\ channels' = r.channels
        /\ cachedChannels' = IF r.channels = channels THEN cachedChannels
                             ELSE rebuildChannelCache(r.channels)
        /\ IF r.ok
           THEN /\ pc' = [pc EXCEPT ![p] = "stat"]
                /\ batch' = batch
           ELSE /\ pc' = [pc EXCEPT ![p] = "loop"]
                /\ batch' = [batch EXCEPT ![p] = Tail(batch[p])]
        /\ hist' = [op |-> "AggSlow", ok |-> r.ok]
    /\ UNCHANGED <<cfgVars, locks, sched, fileVars, frec, held, bufVars, cur, snap, coldVars, now, logVars>>

\* ch.statistic.IncStats(v)
AggStat(p) ==
    /\ pc[p] = "stat"
    /\ LET ev == CurEv(p)
           ch == ChanOf(ev)
       IN  /\ \E d \in StatStore_IncStats(channels[ch].statistic, ev,
                                          maxRecords, evictionPercent) :
                  SetChannel(ch, "statistic", d)
           /\ applied' = [applied EXCEPT !.trend[ch] = Append(@, ev.seq)]
    /\ pc' = [pc EXCEPT ![p] = "pers"]
    /\ hist' = [op |-> "AggStat"]
    /\ UNCHANGED <<cfgVars, locks, sched, fileVars, frec, held, bufVars, cachedChannels, batch, cur, snap,
                   coldVars, now, nextSeq, drained>>

\* ch.personalStats.IncStats(v): the read-locked fast path
AggPers(p) ==
    /\ pc[p] = "pers"
    /\ IF CurEv(p).fingerprint \in DOMAIN channels[ChanOf(CurEv(p))].personalStats
       THEN /\ pc' = [pc EXCEPT ![p] = "rec"]
            /\ cur' = [cur EXCEPT ![p] = [orphan |-> FALSE, fast |-> TRUE]]
       ELSE /\ pc' = [pc EXCEPT ![p] = "persSlow"]
            /\ cur' = cur
    /\ hist' = [op |-> "AggPers"]
    /\ UNCHANGED <<cfgVars, locks, sched, fileVars, frec, held, bufVars, chanVars, batch, snap, coldVars, now,
                   logVars>>

\* ch.personalStats.IncStats(v): the write-locked slow path
AggPersSlow(p) ==
    /\ pc[p] = "persSlow"
    /\ LET ev == CurEv(p)
           ch == ChanOf(ev)
           r  == PSS_slowPath(channels[ch].personalStats, CS, disk, coldOn,
                              ch, ev.fingerprint, maxFingerprints, now)
       IN  /\ SetChannel(ch, "personalStats", r.fps)
           /\ SetCS(r.cs)
           /\ IF r.ok
              THEN /\ pc' = [pc EXCEPT ![p] = "rec"]
                   /\ cur' = [cur EXCEPT ![p] = [orphan |-> FALSE, fast |-> FALSE]]
                   /\ batch' = batch
                   /\ applied' = applied
              ELSE /\ pc' = [pc EXCEPT ![p] = "loop"]
                   /\ cur' = cur
                   /\ batch' = [batch EXCEPT ![p] = Tail(batch[p])]
                   /\ applied' = [applied EXCEPT !.pers[ch] = Append(@, ev.seq)]
           /\ hist' = [op |-> "AggPersSlow", ok |-> r.ok, fromCold |-> r.fromCold]
    /\ UNCHANGED <<cfgVars, locks, sched, fileVars, frec, held, bufVars, cachedChannels, snap, disk, now,
                   nextSeq, drained>>

\* rec.IncStats(v, ...) on the record the lookup returned.  A record that
\* has left the directory since the lookup takes the increments with it.
AggRec(p) ==
    /\ pc[p] = "rec"
    /\ LET ev == CurEv(p)
           ch == ChanOf(ev)
           fp == ev.fingerprint
       IN  /\ IF cur[p].orphan
              THEN channels' = channels
              ELSE \E f \in FR_IncStats(channels[ch].personalStats[fp], ev,
                                        maxRecordsPerFP, evictionPercent, now) :
                      channels' = [channels EXCEPT ![ch].personalStats[fp] = f]
           /\ applied' = [applied EXCEPT !.pers[ch] = Append(@, ev.seq)]
    /\ pc' = [pc EXCEPT ![p] = "loop"]
    /\ batch' = [batch EXCEPT ![p] = Tail(batch[p])]
    /\ hist' = [op |-> "AggRec", orphan |-> cur[p].orphan]
    /\ UNCHANGED <<cfgVars, locks, sched, fileVars, frec, held, bufVars, cachedChannels, cur, snap, coldVars, now,
                   nextSeq, drained>>

\* GetSnapshot: read-lock the directory, then read every channel's trend
\* store and personal store in turn, then unlock
SnapBegin ==
    /\ snap.pc = "idle"
    /\ snap' = [pc |-> "reading", todo |-> DOMAIN channels, phase |-> "trend",
                out |-> EmptyMap]
    /\ hist' = [op |-> "SnapBegin"]
    /\ UNCHANGED <<cfgVars, locks, sched, fileVars, frec, held, bufVars, chanVars, pc, batch, cur, coldVars, now,
                   logVars>>

PSS_GetData(fps) == [fp \in DOMAIN fps |-> FR_GetData(fps[fp])]

SnapTrend(ch) ==
    /\ snap.pc = "reading"
    /\ snap.phase = "trend"
    /\ ch \in snap.todo
    /\ snap' = [snap EXCEPT
                  !.phase = "pers",
                  !.out = MapPut(snap.out, ch,
                            [trend |-> channels[ch].statistic,
                             personal |-> EmptyMap,
                             trendSeen |-> applied.trend[ch],
                             persSeen |-> <<>>])]
    /\ hist' = [op |-> "SnapTrend"]
    /\ UNCHANGED <<cfgVars, locks, sched, fileVars, frec, held, bufVars, chanVars, pc, batch, cur, coldVars, now,
                   logVars>>

SnapPers(ch) ==
    /\ snap.pc = "reading"
    /\ snap.phase = "pers"
    /\ ch \in snap.todo
    /\ ch \in DOMAIN snap.out
    /\ snap' = [snap EXCEPT
                  !.phase = "trend",
                  !.todo = snap.todo \ {ch},
                  !.out[ch].personal = PSS_GetData(channels[ch].personalStats),
                  !.out[ch].persSeen = applied.pers[ch]]
    /\ hist' = [op |-> "SnapPers"]
    /\ UNCHANGED <<cfgVars, locks, sched, fileVars, frec, held, bufVars, chanVars, pc, batch, cur, coldVars, now,
                   logVars>>

SnapEnd ==
    /\ snap.pc = "reading"
    /\ snap.todo = {}
    /\ snap' = IdleSnap
    /\ hist' = [op |-> "SnapEnd"]
    /\ UNCHANGED <<cfgVars, locks, sched, fileVars, frec, held, bufVars, chanVars, pc, batch, cur, coldVars, now,
                   logVars>>

----------------------------------------------------------------------------
\* Specification Spec: the service under concurrent callers: any number of
\* AddStats callers and two AggregateStats callers.

SvcEvents ==
    { [channel |-> c, fingerprint |-> "f1", views |-> <<"1">>, clicks |-> <<>>] :
        c \in {"a", "b", "c"} }

InitCold ==
    /\ index = NewColdStorage.index
    /\ pending = NewColdStorage.pending
    /\ restored = NewColdStorage.restored
    /\ loaded = NewColdStorage.loaded
    /\ disk = [c \in ChanNames |-> NoDiskFile]

\* a file: whether it exists, the version of the content written to it,
\* whether that content is complete, and whether it has reached the disk
NoFile == [has |-> FALSE, ver |-> 0, whole |-> FALSE, synced |-> FALSE]

FileNames == {"data", "data.tmp", "cold", "cold.tmp"}

IdleWrite ==
    [pc |-> "idle", kind |-> "none", ver |-> 0, start |-> NoFile,
     res |-> "none", crashed |-> FALSE]

NoResult == [q |-> "none"]

InitFiles ==
    /\ fsys = [f \in FileNames |-> NoFile]
    /\ wr = IdleWrite

InitRecord ==
    /\ frec = NewFingerprintRecord(0)
    /\ held = NoResult

\* The mutexes: Scheduler.opsMu, StatisticService.mu (the ingest buffers)
\* and chMu (the channel directory), and of one channel StatStore.mu (st),
\* PersonalStatStore.mu (ps) and the mu of one FingerprintRecord (rec), and
\* ColdStorage.mu (cs).  opsMu and mu are sync.Mutex, the others
\* sync.RWMutex.
LockNames == {"opsMu", "mu", "chMu", "st", "ps", "rec", "cs"}

\* the goroutines that call into the engine
Threads == {"t1", "t2"}

\* nobody holds a lock and no call is in progress.  w is the writer of a
\* lock, r its readers; todo is what is left of a goroutine's call, waiting
\* says that it has called Lock and is blocked in it, holds lists the locks
\* it holds in the order it took them.
NoLocks ==
    [w       |-> [l \in LockNames |-> "none"],
     r       |-> [l \in LockNames |-> {}],
     todo    |-> [t \in Threads |-> <<>>],
     waiting |-> [t \in Threads |-> FALSE],
     holds   |-> [t \in Threads |-> <<>>]]

NewScheduler ==
    [opsMu |-> "free", stopCh |-> "nil", loop |-> "none", main |-> "new",
     persistC |-> FALSE, aggregateC |-> FALSE, todo |-> {}, saves |-> 0,
     stopSeq |-> 0]

InitProcs ==
    /\ sched = NewScheduler
    /\ locks = NoLocks
    /\ pc = [p \in Aggs |-> "idle"]
    /\ batch = [p \in Aggs |-> <<>>]
    /\ cur = [p \in Aggs |-> [orphan |-> FALSE, fast |-> FALSE]]
    /\ snap = IdleSnap

InitLogs ==
    /\ nextSeq = 1
    /\ drained = <<>>
    /\ applied = [trend   |-> [c \in ChanNames |-> <<>>],
                  pers    |-> [c \in ChanNames |-> <<>>],
                  overlap |-> FALSE]
    /\ hist = [op |-> "Init"]

InitBuffers ==
    /\ activeIdx = 0
    /\ buffers = [i \in {0, 1} |-> <<>>]
    /\ prevBufSize = 0

Init ==
    /\ maxChannels \in {0, 1, 2}
    /\ maxRecords = 0 - 1
    /\ evictionPercent = NewStatStore_pct(10)
    /\ maxFingerprints = NewPersonalStatStore_max(0 - 1)
    /\ maxRecordsPerFP = 0 - 1
    /\ fingerprintTTL = 0
    /\ coldTTL = 0
    /\ coldOn = FALSE
    /\ InitBuffers
    /\ channels = NewStatisticService_channels(maxChannels)
    /\ cachedChannels = rebuildChannelCache(channels)
    /\ InitProcs
    /\ InitFiles
    /\ InitRecord
    /\ InitCold
    /\ now = 0
    /\ InitLogs

AggStep(p) ==
    \/ AggDrain(p)
    \/ AggLoop(p)
    \/ AggSlow(p)
    \/ AggStat(p)
    \/ AggPers(p)
    \/ AggPersSlow(p)
    \/ AggRec(p)

SnapStep ==
    \/ SnapBegin
    \/ \E ch \in ChanNames : SnapTrend(ch)
    \/ \E ch \in ChanNames : SnapPers(ch)
    \/ SnapEnd

Next ==
    \/ \E ev \in SvcEvents : AddStats(ev)
    \/ \E p \in Aggs : AggStep(p)

Spec == Init /\ [][Next]_vars

\* Specification SpecSnap: one AggregateStats caller and a concurrent
\* GetSnapshot caller
NextSnap ==
    \/ \E ev \in SvcEvents : AddStats(ev)
    \/ AggStep("g1")
    \/ SnapStep

SpecSnap == Init /\ [][NextSnap]_vars

----------------------------------------------------------------------------
\* Specification SpecTrend: the trend path.  Events with one or several view
\* and click IDs (malformed ones included) are ingested and aggregated into
\* stores with a record cap; the "default" store starts empty or holding a
\* record close to the halving limit.

TrendPayloads ==
    { [views |-> <<"1">>, clicks |-> <<>>],
      [views |-> <<"2", "3">>, clicks |-> <<"1">>],
      [views |-> <<>>, clicks |-> <<"3", "3">>],
      [views |-> <<"x", "-1", "4294967296", "">>, clicks |-> <<"x", "">>] }

\* the payload without views goes to channel "a", the others to the default
\* channel (empty channel name)
TrendEvents ==
    { [channel |-> IF pl.views = <<>> THEN "a" ELSE "", fingerprint |-> "f1",
       views |-> pl.views, clicks |-> pl.clicks] : pl \in TrendPayloads }

\* stores a run of events leaves behind: empty, or ID 1 after 511 views, or
\* after 512 views and 100 clicks
SeedStores ==
    { EmptyMap,
      [id \in {1} |-> Rec(511, 0, 0)],
      [id \in {1} |-> Rec(512, 100, 0)] }

InitTrend ==
    /\ maxChannels = 2
    /\ maxRecords \in {0 - 1, 0, MaxCapCfg}
    /\ evictionPercent \in {NewStatStore_pct(0), NewStatStore_pct(50)}
    /\ maxFingerprints = NewPersonalStatStore_max(0 - 1)
    /\ maxRecordsPerFP = 0 - 1
    /\ fingerprintTTL = 0
    /\ coldTTL = 0
    /\ coldOn = FALSE
    /\ InitBuffers
    /\ \E seed \in SeedStores :
          /\ maxRecords >= 0 => Len0(seed) <= maxRecords
          /\ channels = [NewStatisticService_channels(maxChannels)
                            EXCEPT ![DefaultChannel].statistic = seed]
    /\ cachedChannels = rebuildChannelCache(channels)
    /\ InitProcs
    /\ InitFiles
    /\ InitRecord
    /\ InitCold
    /\ now = 0
    /\ InitLogs

NextTrend ==
    \/ \E ev \in TrendEvents : AddStats(ev)
    \/ AggStep("g1")

SpecTrend == InitTrend /\ [][NextTrend]_vars

----------------------------------------------------------------------------
\* History helpers

RECURSIVE Flatten(_)
Flatten(ss) == IF ss = <<>> THEN <<>> ELSE Head(ss) \o Flatten(Tail(ss))

Count(sq, s) == Cardinality({ i \in 1..Len(sq) : sq[i].seq = s })

DrainedEvents == Flatten(drained)

IsAscending(sq) == \A i \in 1..Len(sq) : \A j \in 1..Len(sq) : i < j => sq[i] < sq[j]

AllIdle == \A p \in Aggs : pc[p] = "idle"

----------------------------------------------------------------------------
\* C1: under any interleaving of AddStats and AggregateStats callers, every
\* submitted InputStats is either still waiting in a buffer or is contained in
\* the batch of exactly one drain: none is lost, none is drained twice.
C1_DrainedExactlyOnce ==
    \A s \in 1..(nextSeq - 1) :
        Count(DrainedEvents, s) + Count(buffers[0], s) + Count(buffers[1], s) = 1

\* C1 witness: two non-empty batches were drained and both aggregators are
\* working on their batch at once
C1_Witness ==
    /\ Cardinality({ i \in 1..Len(drained) : drained[i] # <<>> }) >= 2
    /\ \A p \in Aggs : pc[p] # "idle" /\ batch[p] # <<>>

\* the event that was submitted as the s-th, once it has been drained
EvBySeq(s) ==
    LET i == CHOOSE k \in 1..Len(DrainedEvents) : DrainedEvents[k].seq = s
    IN  DrainedEvents[i]

AllDrained == \A s \in 1..(nextSeq - 1) : Count(DrainedEvents, s) = 1

\* GetStatistic(channel): the trend data, or nil for an unknown channel
GetStatisticIsNil(name) == name \notin DOMAIN channels

----------------------------------------------------------------------------
\* C4: in every reachable state the channel directory, "default" included,
\* holds at most maxChannels channels when maxChannels >= 0, also when two
\* callers create distinct new channels concurrently.
C4_ChannelCap ==
    maxChannels >= 0 => Len0(channels) <= maxChannels

\* C4 witness: the directory is full, one caller has just been refused a new
\* channel under the write lock while the other caller is also on the slow
\* path for its own new channel
C4_Witness ==
    /\ maxChannels >= 1
    /\ Len0(channels) = maxChannels
    /\ hist.op = "AggSlow" /\ ~hist.ok
    /\ \E p \in Aggs : pc[p] = "slow"

----------------------------------------------------------------------------
\* the events for "a", "b" and "c" were ingested in that order and all of
\* them have been aggregated
IngestedABC ==
    /\ nextSeq >= 4
    /\ AllDrained
    /\ AllIdle
    /\ buffers[0] = <<>> /\ buffers[1] = <<>>
    /\ EvBySeq(1).channel = "a"
    /\ EvBySeq(2).channel = "b"
    /\ EvBySeq(3).channel = "c"
    /\ nextSeq = 4

\* C5 (as stated): with maxChannels = 2, after events for "a", "b", "c" are
\* ingested and aggregated (by AggregateStats calls that do not overlap) the
\* channel list is exactly a, b, default, "c" is absent and GetStatistic("c")
\* is nil.
C5_Original ==
    (maxChannels = 2 /\ IngestedABC /\ ~applied.overlap) =>
        /\ cachedChannels = <<"a", "b", "default">>
        /\ DOMAIN channels = {"a", "b", "default"}
        /\ GetStatisticIsNil("c")

\* C5 (amended): "default" counts toward the cap, so with maxChannels = 2 and
\* non-overlapping AggregateStats calls only "a" is created: the channel list
\* is exactly a, default; "b" and "c" are absent and GetStatistic returns nil
\* for both.
C5_ChannelCapTwo ==
    (maxChannels = 2 /\ IngestedABC /\ ~applied.overlap) =>
        /\ cachedChannels = <<"a", "default">>
        /\ DOMAIN channels = {"a", "default"}
        /\ GetStatisticIsNil("b")
        /\ GetStatisticIsNil("c")

C5_Witness ==
    /\ maxChannels = 2
    /\ IngestedABC
    /\ ~applied.overlap
    /\ applied.trend["a"] = <<1>>

----------------------------------------------------------------------------
\* C7: a GetSnapshot running concurrently with AggregateStats never returns,
\* for a channel, data in which an event is applied to the trend counters but
\* not yet to the personal counters.
C7_SnapshotNotMidAggregation ==
    \A ch \in DOMAIN snap.out :
        ch \notin snap.todo => snap.out[ch].trendSeen = snap.out[ch].persSeen

----------------------------------------------------------------------------
\* C8 (as stated): events of one channel are applied to its counters in the
\* order in which their AddStats calls returned, under any interleaving of
\* AddStats and AggregateStats callers.
C8_Original ==
    \A ch \in ChanNames :
        IsAscending(applied.trend[ch]) /\ IsAscending(applied.pers[ch])

\* C8 (amended): when AggregateStats calls do not overlap, events of one
\* channel are applied to its trend and personal counters in the order in
\* which their AddStats calls returned.
C8_ArrivalOrderSerial ==
    ~applied.overlap =>
        \A ch \in ChanNames :
            IsAscending(applied.trend[ch]) /\ IsAscending(applied.pers[ch])

\* C8 witness: two events of one channel, drained in different batches, have
\* both been applied
C8_Witness ==
    \E ch \in ChanNames :
        /\ ~applied.overlap
        /\ Len(applied.trend[ch]) >= 2
        /\ Len(applied.pers[ch]) >= 2
        /\ Len(drained) >= 2

----------------------------------------------------------------------------
\* C2: after any sequence of AddStats and AggregateStats, every record of
\* every channel's StatStore has 0 <= views <= 512, clicks >= 0 and ftr >= 0.
C2_RecordBounds ==
    \A ch \in DOMAIN channels :
        \A id \in DOMAIN channels[ch].statistic :
            LET r == channels[ch].statistic[id] IN
            /\ 0 <= r.views /\ r.views <= HalvingLimit
            /\ r.clicks >= 0
            /\ r.ftr >= 0

\* C2 witness: a view has just pushed a record over the limit and it was
\* halved (257 views are only reached by halving 513)
C2_Witness ==
    /\ hist.op = "AggStat"
    /\ \E id \in DOMAIN channels[DefaultChannel].statistic :
          /\ channels[DefaultChannel].statistic[id].views = 257
          /\ channels[DefaultChannel].statistic[id].ftr >= 1

----------------------------------------------------------------------------
\* C3: for every maxRecords >= 0 (0 included) a channel's StatStore never
\* holds more than maxRecords entries after a completed IncStats call.
C3_RecordCap ==
    maxRecords >= 0 =>
        \A ch \in DOMAIN channels : Len0(channels[ch].statistic) <= maxRecords

----------------------------------------------------------------------------
\* The clock, TTL eviction of fingerprints, and the operations of ColdStorage

\* time.Now() advances between operations (it is no operation itself: the
\* record of the last operation stays).  The clock is only compared with a
\* TTL, so it stands still when both TTLs are off.
Tick ==
    /\ fingerprintTTL > 0 \/ coldTTL > 0
    /\ now < MaxTime
    /\ now' = now + 1
    /\ UNCHANGED <<cfgVars, locks, sched, fileVars, frec, held, bufVars, chanVars, procVars, coldVars, logVars, hist>>

\* channels[ch].personalStats.EvictExpired(time.Now()), under the directory
\* write lock.  An AggregateStats caller that already looked an evicted
\* record up keeps its pointer to it.  A call that finds nothing expired
\* changes nothing.
EvictExpired_do(ch) ==
    /\ ch \in DOMAIN channels
    /\ LET fps == channels[ch].personalStats
           ex  == PSS_expired(fps, fingerprintTTL, now)
           r   == PSS_EvictExpired(fps, CS, coldOn, ch, fingerprintTTL, now)
       IN  /\ SetChannel(ch, "personalStats", r.fps)
           /\ SetCS(r.cs)
           /\ cur' = [p \in Aggs |->
                        IF /\ pc[p] = "rec"
                           /\ ChanOf(CurEv(p)) = ch
                           /\ CurEv(p).fingerprint \in ex
                        THEN [cur[p] EXCEPT !.orphan = TRUE] ELSE cur[p]]
           /\ hist' = IF ex = {} THEN hist
                      ELSE [op |-> "EvictExpired", ch |-> ch, t |-> now,
                            removed |-> [fp \in ex |-> FR_GetData(fps[fp])]]
    /\ UNCHANGED <<cfgVars, locks, fileVars, frec, held, bufVars, cachedChannels, pc, batch, snap, disk,
                   now, logVars>>

EvictExpired(ch) == EvictExpired_do(ch) /\ UNCHANGED sched

\* ColdStorage.Evict(channel, fingerprint, data).  A run holds at most
\* MaxColdOps direct Evict and Restore calls and restarts, counted in nextSeq.
ColdEvict(ch, fp, data) ==
    /\ nextSeq <= MaxColdOps
    /\ nextSeq' = nextSeq + 1
    /\ SetCS(Cold_Evict(CS, ch, fp, data, now))
    /\ hist' = [op |-> "Evict", ch |-> ch, fp |-> fp, data |-> data, t |-> now]
    /\ UNCHANGED <<cfgVars, locks, sched, fileVars, frec, held, bufVars, chanVars, procVars, disk, now, drained,
                   applied>>

\* ColdStorage.Restore(channel, fingerprint)
ColdRestore(ch, fp) ==
    /\ nextSeq <= MaxColdOps
    /\ nextSeq' = nextSeq + 1
    /\ LET r == Cold_Restore(CS, disk, ch, fp) IN
        /\ SetCS(r.cs)
        /\ hist' = [op |-> "Restore", ok |-> r.ok]
    /\ UNCHANGED <<cfgVars, locks, sched, fileVars, frec, held, bufVars, chanVars, procVars, disk, now, drained,
                   applied>>

NoTrip == [valid |-> FALSE]

NoStart == [valid |-> FALSE]

\* ColdStorage.Flush(); failing is the set of channels whose writeColdFile
\* returns an error.  The record of a failed call keeps the state it started
\* from (own); that of a failed call or of a retry the state the first of the
\* run of failed calls started from (pre); that of a successful call the Evict
\* that directly preceded it (trip); every record the fingerprints that were
\* marked restored when the call began (lazy).
ColdFlush_do(failing) ==
    /\ failing \subseteq Cold_flushChannels(CS)
    /\ \E r \in Cold_Flush(CS, disk, now, coldTTL, failing) :
        /\ SetCS(r.cs)
        /\ disk' = r.dsk
        /\ LET retry == hist.op = "Flush" /\ hist.err
               own   == [valid |-> TRUE, cs |-> CS, disk |-> disk, t |-> now]
           IN  hist' = [op    |-> "Flush",
                        t     |-> now,
                        lazy  |-> restored,
                        err   |-> r.err,
                        retry |-> retry,
                        own   |-> IF r.err THEN own ELSE NoStart,
                        pre   |-> IF retry THEN hist.pre
                                  ELSE IF r.err THEN own ELSE NoStart,
                        trip  |-> IF hist.op = "Evict" /\ ~r.err
                                  THEN [valid |-> TRUE, ch |-> hist.ch,
                                        fp |-> hist.fp, data |-> hist.data,
                                        t |-> hist.t]
                                  ELSE NoTrip]
    /\ UNCHANGED <<cfgVars, locks, fileVars, frec, held, bufVars, chanVars, procVars, now, logVars>>

ColdFlush(failing) == ColdFlush_do(failing) /\ UNCHANGED sched

\* A new process over the same cold directory: NewColdStorage, RestoreIndex
ColdRestart ==
    /\ nextSeq <= MaxColdOps
    /\ nextSeq' = nextSeq + 1
    /\ SetCS(Cold_RestoreIndex(NewColdStorage, disk))
    /\ hist' = [op   |-> "RestoreIndex",
                trip |-> IF hist.op = "Flush" /\ ~hist.err /\ hist.trip.valid
                         THEN hist.trip ELSE NoTrip]
    /\ UNCHANGED <<cfgVars, locks, sched, fileVars, frec, held, bufVars, chanVars, procVars, disk, now, drained,
                   applied>>

----------------------------------------------------------------------------
\* Specification SpecCold: ColdStorage on its own.  Callers evict and restore
\* fingerprints of two channels (one of them named with a path separator),
\* flush with any set of failing writes, and restart the process; the clock
\* advances; coldTTL is off or one tick.

ColdChans == {"default", "a/b"}

OneView == [id \in {1} |-> Rec(1, 0, 0)]

TwoIDs == [id \in {1, 2} |-> IF id = 1 THEN Rec(3, 1, 0) ELSE Rec(0, 1, 0)]

\* The fingerprints evicted per channel, and the data they are evicted with
ColdKeys == { <<"default", "f1">>, <<"default", "f2">>, <<"a/b", "f1">> }

ColdEvicts ==
    { [ch |-> k[1], fp |-> k[2], data |-> OneView] : k \in ColdKeys }
    \cup { [ch |-> "default", fp |-> "f1", data |-> TwoIDs] }

InitColdSpec ==
    /\ maxChannels = 1
    /\ maxRecords = 0 - 1
    /\ evictionPercent = NewStatStore_pct(10)
    /\ maxFingerprints = NewPersonalStatStore_max(0 - 1)
    /\ maxRecordsPerFP = 0 - 1
    /\ fingerprintTTL = 0
    /\ coldTTL \in {0, 1}
    /\ coldOn = TRUE
    /\ InitBuffers
    /\ channels = NewStatisticService_channels(maxChannels)
    /\ cachedChannels = rebuildChannelCache(channels)
    /\ InitProcs
    /\ InitFiles
    /\ InitRecord
    /\ InitCold
    /\ now = 0
    /\ InitLogs

NextCold ==
    \/ \E e \in ColdEvicts : ColdEvict(e.ch, e.fp, e.data)
    \/ \E k \in ColdKeys : ColdRestore(k[1], k[2])
    \/ \E failing \in SUBSET ColdChans : ColdFlush(failing)
    \/ ColdRestart
    \/ Tick

SpecCold == InitColdSpec /\ [][NextCold]_vars

----------------------------------------------------------------------------
\* Failed and retried flushes

\* What a Flush whose writes all succeed makes of (cs, dsk) at time t (the
\* channels are independent, so every visiting order gives the same result)
FlushOk(cs, dsk, t) ==
    CHOOSE r \in Cold_Flush(cs, dsk, t, coldTTL, {}) : TRUE

FlushFailed == hist.op = "Flush" /\ hist.err

FlushRetried == hist.op = "Flush" /\ ~hist.err /\ hist.retry

\* The eviction times of every cold entry (pending or in a cold file) at the
\* start of the first failed Flush
EvictedAtsBefore ==
    UNION { { hist.pre.cs.pending[c][fp].evictedAt :
                fp \in DOMAIN hist.pre.cs.pending[c] }
            \cup
            LET cf == Cold_getOrLoadColdFile(hist.pre.cs, hist.pre.disk, c)
            IN  { cf.entries[fp].evictedAt : fp \in DOMAIN cf.entries } :
            c \in ChanNames }

\* No cold entry passed coldTTL between the first failed Flush and the retry
NoExpiryBetween ==
    coldTTL > 0 =>
        \A a \in EvictedAtsBefore :
            (hist.pre.t - a > coldTTL) <=> (hist.t - a > coldTTL)

\* C9 as stated: a failed Flush leaves pending and restored exactly as they
\* were before the call, and the successful Flush that follows a failed one
\* leaves the cold files and the index as a single successful Flush in place
\* of the failed one would have
C9_Original ==
    /\ FlushFailed =>
          /\ pending = hist.own.cs.pending
          /\ restored = hist.own.cs.restored
    /\ FlushRetried =>
          LET e == FlushOk(hist.pre.cs, hist.pre.disk, hist.pre.t)
          IN  disk = e.dsk /\ index = e.cs.index

\* C9 (amended): a failed Flush leaves pending and restored of every channel
\* either exactly as before, or - for a channel whose file it wrote before the
\* failure - cleared with that channel's file as a successful Flush would
\* have written it, and at least one channel that needed flushing keeps its
\* pending and restored; the successful Flush that follows failed ones, with
\* no other operation in between and no cold entry passing coldTTL in between,
\* leaves the cold files and the index as a single successful Flush in place
\* of the first failed one would have
C9_FailedFlushRecoverable ==
    /\ FlushFailed =>
          LET e == FlushOk(hist.own.cs, hist.own.disk, hist.own.t) IN
          /\ \A c \in ChanNames :
                \/ /\ pending[c] = hist.own.cs.pending[c]
                   /\ restored[c] = hist.own.cs.restored[c]
                \/ /\ pending[c] = EmptyMap
                   /\ restored[c] = {}
                   /\ disk[c] = e.dsk[c]
          /\ \E c \in Cold_flushChannels(hist.own.cs) :
                /\ pending[c] = hist.own.cs.pending[c]
                /\ restored[c] = hist.own.cs.restored[c]
    /\ (FlushRetried /\ NoExpiryBetween) =>
          LET e == FlushOk(hist.pre.cs, hist.pre.disk, hist.pre.t)
          IN  disk = e.dsk /\ index = e.cs.index

\* a failed Flush that had already written one channel's file, retried with
\* success: both channels' entries are on disk
C9_Witness ==
    /\ FlushRetried
    /\ NoExpiryBetween
    /\ \E c \in ColdChans : \E d \in ColdChans \ {c} :
          /\ Len0(hist.pre.cs.pending[c]) > 0
          /\ Len0(hist.pre.cs.pending[d]) > 0
          /\ disk[c].has
          /\ disk[d].has

----------------------------------------------------------------------------
\* Evict, Flush, then RestoreIndex in a new process

\* C10: after Evict(ch, fp, d), a successful Flush and RestoreIndex on a new
\* ColdStorage over the same directory, Has(ch, fp) is true and
\* Restore(ch, fp) returns d
C10_EvictFlushRestoreIndex ==
    (hist.op = "RestoreIndex" /\ hist.trip.valid) =>
        LET r == Cold_Restore(CS, disk, hist.trip.ch, hist.trip.fp) IN
        /\ Cold_Has(CS, hist.trip.ch, hist.trip.fp)
        /\ r.ok
        /\ r.data = hist.trip.data

----------------------------------------------------------------------------
\* Specification SpecPSS: the personal path with a fingerprint cap, a
\* fingerprint TTL of one tick and cold storage attached or not.  One AggregateStats
\* caller applies events of channel "a" (created by the first of them) for
\* several fingerprints while fingerprints expire,
\* are evicted to cold storage, flushed, and restored by later events.

PSSEvents ==
    { [channel |-> "a", fingerprint |-> f, views |-> <<"1">>, clicks |-> <<>>] :
        f \in FPNames }

InitPSS ==
    /\ maxChannels = 2
    /\ maxRecords = 0 - 1
    /\ evictionPercent = NewStatStore_pct(10)
    /\ \E m \in {1, MaxCapCfg} :
          maxFingerprints = NewPersonalStatStore_max(m)
    /\ maxRecordsPerFP = 0 - 1
    /\ fingerprintTTL = 1
    /\ coldTTL = 0
    /\ coldOn \in BOOLEAN
    /\ InitBuffers
    /\ channels = NewStatisticService_channels(maxChannels)
    /\ cachedChannels = rebuildChannelCache(channels)
    /\ InitProcs
    /\ InitFiles
    /\ InitRecord
    /\ InitCold
    /\ now = 0
    /\ InitLogs

\* The Scheduler's opsMu serializes doAggregate (AggregateStats, then the
\* eviction of expired fingerprints) and doPersist (Flush): eviction and flush
\* run while no AggregateStats call is in progress.  AddStats callers and the
\* clock are not serialized.
doAggregate_evict(ch) ==
    /\ pc["g1"] = "idle"
    /\ EvictExpired(ch)

doPersist_flush(failing) ==
    /\ pc["g1"] = "idle"
    /\ ColdFlush(failing)

NextPSS ==
    \/ \E ev \in PSSEvents : AddStats(ev)
    \/ AggStep("g1")
    \/ \E ch \in ChanNames : doAggregate_evict(ch)
    \/ \E failing \in SUBSET ChanNames : doPersist_flush(failing)
    \/ Tick

SpecPSS == InitPSS /\ [][NextPSS]_vars

\* C6: a channel's PersonalStatStore never holds more than maxFingerprints
\* fingerprints when maxFingerprints >= 0
C6_FingerprintCap ==
    \A ch \in DOMAIN channels :
        maxFingerprints >= 0 =>
            Len0(channels[ch].personalStats) <= maxFingerprints

----------------------------------------------------------------------------
\* TTL eviction of fingerprints

EvictedNow == hist.op = "EvictExpired"

\* the data of fp, removed from channel ch, is in pending or in ch's cold file
InColdStorage(ch, fp, data) ==
    \/ /\ fp \in DOMAIN pending[ch]
       /\ pending[ch][fp].data = data
    \/ LET cf == Cold_loadColdFileFromDisk(disk, ch) IN
       /\ fp \in DOMAIN cf.entries
       /\ cf.entries[fp].data = data

NoneExpired(ch, t) == PSS_expired(channels[ch].personalStats, fingerprintTTL, t) = {}

\* C11 as stated: after EvictExpired(now) with fingerprintTTL > 0 no record
\* with now - lastSeen > fingerprintTTL remains in the store, and the data of
\* every record it removed is in ColdStorage pending or in the cold file
C11_Original ==
    (EvictedNow /\ fingerprintTTL > 0) =>
        /\ NoneExpired(hist.ch, hist.t)
        /\ \A fp \in DOMAIN hist.removed :
              InColdStorage(hist.ch, fp, hist.removed[fp])

\* C11 (amended): after EvictExpired(now) with fingerprintTTL > 0 no record
\* with now - lastSeen > fingerprintTTL remains in the store, and, when cold
\* storage is attached to the store, the data of every record it removed is
\* in ColdStorage pending or in the cold file
C11_EvictedToCold ==
    (EvictedNow /\ fingerprintTTL > 0) =>
        /\ NoneExpired(hist.ch, hist.t)
        /\ coldOn =>
              \A fp \in DOMAIN hist.removed :
                  InColdStorage(hist.ch, fp, hist.removed[fp])

\* an eviction with cold storage attached that removed a record
C11_Witness ==
    /\ EvictedNow
    /\ fingerprintTTL > 0
    /\ coldOn
    /\ hist.removed # EmptyMap
    /\ \E fp \in DOMAIN hist.removed : hist.removed[fp] # EmptyMap

----------------------------------------------------------------------------
\* The index as the oracle of what is cold

\* fp is in pending[ch], or in the on-disk cold file of ch and not marked
\* restored
IsCold(ch, fp) ==
    \/ fp \in DOMAIN pending[ch]
    \/ /\ fp \in DOMAIN Cold_loadColdFileFromDisk(disk, ch).entries
       /\ fp \notin restored[ch]

\* C12: after any sequence of Evict, Restore, Flush (successful or failed) and
\* RestoreIndex, Has(ch, fp) is true exactly when fp is in pending[ch] or is
\* in the on-disk cold file of ch and not marked restored, and Restore(ch, fp)
\* then returns its data
C12_IndexIsOracle ==
    \A k \in ColdKeys :
        /\ Cold_Has(CS, k[1], k[2]) <=> IsCold(k[1], k[2])
        /\ Cold_Has(CS, k[1], k[2]) => Cold_Restore(CS, disk, k[1], k[2]).ok

----------------------------------------------------------------------------
\* Atomic writes: FileManager.SaveToFile and ColdStorage.writeColdFile
\*
\* SaveToFile: GetSnapshot, Marshal, Compress, os.Create(tmp), Write, Sync,
\* Close, os.Rename(tmp, fileName).  writeColdFile: Marshal, Compress,
\* MkdirAll, os.WriteFile(tmp) (open, write and close in one call, no Sync),
\* os.Rename(tmp, path).

MaxSaves == 2

PathOf(kind) == IF kind = "snap" THEN "data" ELSE "cold"

TmpOf(kind) == IF kind = "snap" THEN "data.tmp" ELSE "cold.tmp"

EncodeSteps(kind) ==
    IF kind = "snap" THEN {"marshal", "compress"}
    ELSE {"marshal", "compress", "mkdir"}

\* what a caller gets back from a call that stops at a failing step
ReturnErr == [wr EXCEPT !.pc = "idle", !.res = "err"]

\* os.Remove(tmpFile)
File_Remove(fs, name) == [fs EXCEPT ![name] = NoFile]

File_Sync_skip(f) == f

\* file.Sync()
File_Sync(f) == [f EXCEPT !.synced = TRUE]

\* the call starts: the payload is marshalled and compressed (and the cold
\* directory made) before any file is touched
WriteBegin(kind, failing) ==
    /\ wr.pc = "idle"
    /\ wr.ver < MaxSaves
    /\ wr' = IF failing = "none"
             THEN [pc |-> "create", kind |-> kind, ver |-> wr.ver + 1,
                   start |-> fsys[PathOf(kind)], res |-> "none",
                   crashed |-> FALSE]
             ELSE [pc |-> "idle", kind |-> kind, ver |-> wr.ver + 1,
                   start |-> fsys[PathOf(kind)], res |-> "err",
                   crashed |-> FALSE]
    /\ UNCHANGED <<cfgVars, locks, sched, bufVars, chanVars, procVars, coldVars, fsys, frec, held, now,
                   logVars, hist>>

\* os.Create(tmpFile) / the open of os.WriteFile: creates or truncates
WriteCreate(ok) ==
    /\ wr.pc = "create"
    /\ IF ok
       THEN /\ fsys' = [fsys EXCEPT ![TmpOf(wr.kind)] =
                           [has |-> TRUE, ver |-> wr.ver, whole |-> FALSE,
                            synced |-> FALSE]]
            /\ wr' = [wr EXCEPT !.pc = "write"]
       ELSE /\ fsys' = fsys
            /\ wr' = ReturnErr
    /\ UNCHANGED <<cfgVars, locks, sched, bufVars, chanVars, procVars, coldVars, frec, held, now,
                   logVars, hist>>

\* file.Write(data): SaveToFile closes and removes the tmp file when it fails,
\* os.WriteFile only closes it
WriteData(ok) ==
    /\ wr.pc = "write"
    /\ IF ok
       THEN /\ fsys' = [fsys EXCEPT ![TmpOf(wr.kind)].whole = TRUE]
            /\ wr' = [wr EXCEPT !.pc = IF wr.kind = "snap" THEN "sync"
                                       ELSE "close"]
       ELSE /\ fsys' = IF wr.kind = "snap"
                       THEN File_Remove(fsys, TmpOf(wr.kind))
                       ELSE fsys
            /\ wr' = ReturnErr
    /\ UNCHANGED <<cfgVars, locks, sched, bufVars, chanVars, procVars, coldVars, frec, held, now,
                   logVars, hist>>

\* file.Sync() (SaveToFile only)
WriteSync(ok) ==
    /\ wr.pc = "sync"
    /\ IF ok
       THEN /\ fsys' = [fsys EXCEPT ![TmpOf(wr.kind)] = File_Sync(@)]
            /\ wr' = [wr EXCEPT !.pc = "close"]
       ELSE /\ fsys' = File_Remove(fsys, TmpOf(wr.kind))
            /\ wr' = ReturnErr
    /\ UNCHANGED <<cfgVars, locks, sched, bufVars, chanVars, procVars, coldVars, frec, held, now,
                   logVars, hist>>

\* file.Close()
WriteClose(ok) ==
    /\ wr.pc = "close"
    /\ IF ok
       THEN /\ fsys' = fsys
            /\ wr' = [wr EXCEPT !.pc = "rename"]
       ELSE /\ fsys' = IF wr.kind = "snap"
                       THEN File_Remove(fsys, TmpOf(wr.kind))
                       ELSE fsys
            /\ wr' = ReturnErr
    /\ UNCHANGED <<cfgVars, locks, sched, bufVars, chanVars, procVars, coldVars, frec, held, now,
                   logVars, hist>>

\* return os.Rename(tmpFile, fileName): atomic replacement of the target
WriteRename(ok) ==
    /\ wr.pc = "rename"
    /\ IF ok
       THEN /\ fsys' = [fsys EXCEPT ![PathOf(wr.kind)] = fsys[TmpOf(wr.kind)],
                                    ![TmpOf(wr.kind)] = NoFile]
            /\ wr' = [wr EXCEPT !.pc = "idle", !.res = "ok"]
       ELSE /\ fsys' = fsys
            /\ wr' = ReturnErr
    /\ UNCHANGED <<cfgVars, locks, sched, bufVars, chanVars, procVars, coldVars, frec, held, now,
                   logVars, hist>>

\* what a crash can leave of a file: content that was not synced may be
\* lost in part; what is there after the crash is what the disk holds
AfterCrash(f) ==
    IF f.has /\ ~f.synced
    THEN { [f EXCEPT !.whole = w, !.synced = TRUE] : w \in {f.whole, FALSE} }
    ELSE {f}

\* the process dies in the middle of a write and is started again
Crash ==
    /\ wr.pc # "idle"
    /\ fsys' \in { fs \in [FileNames -> UNION { AfterCrash(fsys[f]) :
                                                  f \in FileNames }] :
                     \A f \in FileNames : fs[f] \in AfterCrash(fsys[f]) }
    /\ wr' = [wr EXCEPT !.pc = "idle", !.res = "none", !.crashed = TRUE]
    /\ UNCHANGED <<cfgVars, locks, sched, bufVars, chanVars, procVars, coldVars, frec, held, now,
                   logVars, hist>>

InitFileSpec ==
    /\ maxChannels = 1
    /\ maxRecords = 0 - 1
    /\ evictionPercent = NewStatStore_pct(10)
    /\ maxFingerprints = NewPersonalStatStore_max(0 - 1)
    /\ maxRecordsPerFP = 0 - 1
    /\ fingerprintTTL = 0
    /\ coldTTL = 0
    /\ coldOn = TRUE
    /\ InitBuffers
    /\ channels = NewStatisticService_channels(maxChannels)
    /\ cachedChannels = rebuildChannelCache(channels)
    /\ pc = [p \in Aggs |-> "idle"]
    /\ batch = [p \in Aggs |-> <<>>]
    /\ cur = [p \in Aggs |-> [orphan |-> FALSE, fast |-> FALSE]]
    /\ snap = IdleSnap
    /\ sched = NewScheduler
    /\ locks = NoLocks
    /\ InitCold
    /\ fsys = [f \in FileNames |-> NoFile]
    /\ wr = IdleWrite
    /\ InitRecord
    /\ now = 0
    /\ InitLogs

NextFile ==
    \/ \E kind \in {"snap", "cold"} :
         \E failing \in {"none"} \cup EncodeSteps(kind) :
           WriteBegin(kind, failing)
    \/ \E ok \in BOOLEAN : WriteCreate(ok)
    \/ \E ok \in BOOLEAN : WriteData(ok)
    \/ \E ok \in BOOLEAN : WriteSync(ok)
    \/ \E ok \in BOOLEAN : WriteClose(ok)
    \/ \E ok \in BOOLEAN : WriteRename(ok)
    \/ Crash

SpecFile == InitFileSpec /\ [][NextFile]_vars

SameContent(f, g) ==
    /\ f.has = g.has
    /\ f.has => (f.ver = g.ver /\ f.whole = g.whole)

\* C13: if the process crashes at any point during SaveToFile, the file at
\* the snapshot path afterwards holds either the complete previous snapshot
\* or the complete new snapshot, never a partial one
C13_CrashLeavesWholeSnapshot ==
    (wr.crashed /\ wr.kind = "snap") =>
        /\ fsys["data"].has => fsys["data"].whole
        /\ \/ SameContent(fsys["data"], wr.start)
           \/ /\ fsys["data"].has
              /\ fsys["data"].ver = wr.ver

\* a crash in the middle of a SaveToFile that was replacing an earlier
\* snapshot
C13_Witness ==
    /\ wr.crashed
    /\ wr.kind = "snap"
    /\ wr.start.has
    /\ fsys["data.tmp"].has
    /\ fsys["data"].ver < wr.ver

\* C14: whenever a step of an atomic write fails (marshal, compress, write to
\* the tmp file, fsync or rename), for the main snapshot as for a cold file,
\* the tmp file does not exist afterwards and the error is returned
C14_NoTmpAfterFailure ==
    wr.res = "err" => ~fsys[TmpOf(wr.kind)].has

----------------------------------------------------------------------------
\* A FingerprintRecord on its own: IncStats calls, and the round trip through
\* cold storage (GetData, Evict, Restore, dataToFingerprintRecord)

\* payloads: repeated and new IDs, as views, as clicks and as both
FRTokens == { <<>>, <<"1">>, <<"2">>, <<"1", "3">> }

FREvents ==
    { [channel |-> "default", fingerprint |-> "f1", views |-> v, clicks |-> c] :
        v \in FRTokens, c \in FRTokens }

\* what a long run of events leaves of a record: ID 1 after 512 views and a
\* click, ID 2 after one click
FRSeeds ==
    { EmptyMap,
      [id \in {1} |-> Rec(512, 1, 0)],
      [id \in {1, 2} |-> IF id = 1 THEN Rec(512, 1, 0) ELSE Rec(0, 1, 0)] }

FRIncStats(ev) ==
    /\ nextSeq <= MaxEvents
    /\ frec' \in FR_IncStats(frec, ev, maxRecordsPerFP, evictionPercent, now)
    /\ nextSeq' = nextSeq + 1
    /\ hist' = [op |-> "IncStats", pre |-> frec]
    /\ UNCHANGED <<cfgVars, locks, sched, bufVars, chanVars, procVars, coldVars, fileVars,
                   held, now, drained, applied>>

\* the record is evicted to cold storage and restored (from pending as it
\* is, from the cold file through its JSON form)
FRRehydrate(fromDisk) ==
    /\ frec' = dataToFingerprintRecord(
                  IF fromDisk THEN DecodeData(EncodeData(FR_GetData(frec)))
                  ELSE FR_GetData(frec), now)
    /\ hist' = [op |-> "Rehydrate", pre |-> frec]
    /\ UNCHANGED <<cfgVars, locks, sched, bufVars, chanVars, procVars, coldVars, fileVars,
                   held, now, logVars>>

InitFR ==
    /\ maxChannels = 1
    /\ maxRecords = 0 - 1
    /\ evictionPercent \in {NewStatStore_pct(0), NewStatStore_pct(50)}
    /\ maxFingerprints = NewPersonalStatStore_max(0 - 1)
    /\ maxRecordsPerFP \in (0 - 1)..MaxCapCfg
    /\ fingerprintTTL = 0
    /\ coldTTL = 0
    /\ coldOn = TRUE
    /\ InitBuffers
    /\ channels = NewStatisticService_channels(maxChannels)
    /\ cachedChannels = rebuildChannelCache(channels)
    /\ InitProcs
    /\ InitCold
    /\ InitFiles
    /\ now = 0
    /\ InitLogs
    /\ \E seed \in FRSeeds :
         /\ maxRecordsPerFP < 0 \/ Cardinality(DOMAIN seed) <= maxRecordsPerFP
         /\ frec = dataToFingerprintRecord(seed, now)
    /\ held = NoResult

NextFR ==
    \/ \E ev \in FREvents : FRIncStats(ev)
    \/ \E fromDisk \in BOOLEAN : FRRehydrate(fromDisk)

SpecFR == InitFR /\ [][NextFR]_vars

\* the logical view of a record: counts[id] if present, else what the
\* bitmaps say
LogicalView(fr) ==
    [id \in fr.viewed \cup fr.clicked |->
        IF id \in DOMAIN fr.counts THEN fr.counts[id]
        ELSE Rec(IF id \in fr.viewed THEN 1 ELSE 0,
                 IF id \in fr.clicked THEN 1 ELSE 0, 0)]

\* C15: after any sequence of IncStats calls GetData returns for every ID
\* exactly the logical view (counts[id] if present, else 1 or 0 views and
\* clicks as the bitmaps say, ftr 0), and no entry for an ID in neither bitmap
C15_GetDataIsLogicalView ==
    /\ FR_GetData(frec) = LogicalView(frec)
    /\ DOMAIN frec.counts \subseteq frec.viewed \cup frec.clicked

\* after an IncStats call the record has a counts entry, a bitmap-only ID
\* that was viewed and clicked, and an ID that was only clicked
C15_Witness ==
    /\ hist.op = "IncStats"
    /\ frec.counts # EmptyMap
    /\ \E id \in (frec.viewed \cap frec.clicked) : id \notin DOMAIN frec.counts
    /\ \E id \in frec.clicked \ frec.viewed : id \notin DOMAIN frec.counts

\* C16: in every reachable state of a FingerprintRecord (after IncStats
\* calls, per-fingerprint evictions and rehydration from cold data) every
\* entry of counts has views > 1 or clicks > 1 or ftr > 0
C16_SparseCounts ==
    \A id \in DOMAIN frec.counts :
        \/ frec.counts[id].views > 1
        \/ frec.counts[id].clicks > 1
        \/ frec.counts[id].ftr > 0

\* a record rehydrated from cold data that holds a counts entry next to a
\* bitmap-only ID
C16_Witness ==
    /\ hist.op = "Rehydrate"
    /\ frec.counts # EmptyMap
    /\ (frec.viewed \cup frec.clicked) \ DOMAIN frec.counts # {}

\* C17: in every reachable state of a FingerprintRecord every ID in counts
\* with views >= 1 is in the viewed bitmap and every ID in counts with
\* clicks >= 1 is in the clicked bitmap, also after halving, per-fingerprint
\* eviction and rehydration
C17_BitmapConsistency ==
    \A id \in DOMAIN frec.counts :
        /\ frec.counts[id].views >= 1 => id \in frec.viewed
        /\ frec.counts[id].clicks >= 1 => id \in frec.clicked

\* the last IncStats call evicted an ID that had a counts entry, and a
\* halved entry is present
C17_Witness ==
    /\ hist.op = "IncStats"
    /\ \E id \in DOMAIN hist.pre.counts : id \notin frec.viewed
    /\ \E id \in DOMAIN frec.counts : frec.counts[id].ftr > 0

\* C18: for every maxRecordsPerFP >= 0 the number of content IDs GetData
\* reports never exceeds maxRecordsPerFP, whether the IDs arrive as views or
\* as clicks
C18_RecordsPerFingerprintCap ==
    maxRecordsPerFP >= 0 =>
        Cardinality(DOMAIN FR_GetData(frec)) <= maxRecordsPerFP

----------------------------------------------------------------------------
\* Queries and what their callers do with the results

QueryNames ==
    {"GetStatistic", "GetPersonalStatistic", "GetByFingerprint", "GetChannels",
     "GetSnapshot"}

QueryChans == {"default", "a"}

\* StatStore.GetData: a new map with a copy of every record
StatStore_GetData(data) == [id \in DOMAIN data |-> data[id]]

\* a result: nil when the channel (or the fingerprint) is not there
NilResult == [nil |-> TRUE, v |-> EmptyMap]

Result(v) == [nil |-> FALSE, v |-> v]

\* the value a query returns in the current state
QueryValue(q, ch, fp) ==
    CASE q = "GetStatistic" ->
           IF ch \in DOMAIN channels
           THEN Result(StatStore_GetData(channels[ch].statistic))
           ELSE NilResult
      [] q = "GetPersonalStatistic" ->
           IF ch \in DOMAIN channels
           THEN Result(PSS_GetData(channels[ch].personalStats))
           ELSE NilResult
      [] q = "GetByFingerprint" ->
           IF ch \in DOMAIN channels /\ fp \in DOMAIN channels[ch].personalStats
           THEN Result(FR_GetData(channels[ch].personalStats[fp]))
           ELSE NilResult
      [] q = "GetChannels" -> Result(cachedChannels)
      [] OTHER ->
           Result([c \in DOMAIN channels |->
                     [trend    |-> StatStore_GetData(channels[c].statistic),
                      personal |-> PSS_GetData(channels[c].personalStats)]])

\* GetChannels returns ss.cachedChannels itself; the slice is replaced (not
\* changed) by rebuildChannelCache when a channel is created, so the caller
\* shares it with the service until the number of channels changes.  Every
\* other query builds its result anew.
SharesEngineState(h) ==
    /\ h.q = "GetChannels"
    /\ h.gen = Len0(channels)

Query(q, ch, fp) ==
    /\ held.q = "none"
    /\ held' = [q |-> q, ch |-> ch, fp |-> fp, gen |-> Len0(channels),
                val |-> QueryValue(q, ch, fp), mutated |-> FALSE]
    /\ UNCHANGED <<cfgVars, locks, sched, bufVars, chanVars, procVars, coldVars, fileVars,
                   frec, now, logVars, hist>>

\* what the caller does to the value: overwrite the first element of a slice,
\* empty a map
MutateSlice(names) ==
    IF Len(names) = 0 THEN names ELSE [names EXCEPT ![1] = "mutated"]

MutateValue(q, r) ==
    IF r.nil THEN r
    ELSE IF q = "GetChannels" THEN Result(MutateSlice(r.v))
    ELSE Result(EmptyMap)

CallerMutates ==
    /\ held.q # "none"
    /\ ~held.mutated
    /\ IF SharesEngineState(held)
       THEN /\ cachedChannels' = MutateSlice(cachedChannels)
            /\ held' = [held EXCEPT
                          !.val = Result(MutateSlice(cachedChannels)),
                          !.mutated = TRUE]
       ELSE /\ cachedChannels' = cachedChannels
            /\ held' = [held EXCEPT !.val = MutateValue(held.q, held.val),
                                    !.mutated = TRUE]
    /\ UNCHANGED <<cfgVars, locks, sched, bufVars, channels, procVars, coldVars, fileVars,
                   frec, now, logVars, hist>>

\* the caller drops the value
CallerReturns ==
    /\ held.q # "none"
    /\ held.mutated
    /\ held' = NoResult
    /\ UNCHANGED <<cfgVars, locks, sched, bufVars, chanVars, procVars, coldVars, fileVars,
                   frec, now, logVars, hist>>

QueryEvents ==
    { [channel |-> "a", fingerprint |-> "f1", views |-> <<"1">>,
       clicks |-> <<>>] }

NextQuery ==
    \/ \E ev \in QueryEvents : AddStats(ev)
    \/ AggStep("g1")
    \/ \E q \in QueryNames : \E ch \in QueryChans : Query(q, ch, "f1")
    \/ CallerMutates
    \/ CallerReturns

SpecQuery == Init /\ [][NextQuery]_vars

\* C19: mutating the value returned by any query never changes engine state:
\* the same query, with no engine mutation in between, returns what it would
\* have returned without the caller's mutation
C19_CallerMutationInvisible ==
    [][ (held.q # "none" /\ ~held.mutated /\ held'.q = held.q /\ held'.mutated)
          => \A q \in QueryNames : \A ch \in QueryChans :
                 QueryValue(q, ch, "f1")' = QueryValue(q, ch, "f1") ]_vars

----------------------------------------------------------------------------
\* Restore from cold storage on the next event

ViewsOf(data, id) == IF id \in DOMAIN data THEN data[id].views ELSE 0

\* the slow path taken by p for a fingerprint that is absent from the
\* directory and in the cold index rebuilds the record from the cold data
RestoredOnArrival(p) ==
    LET ev  == CurEv(p)
        ch  == ChanOf(ev)
        fp  == ev.fingerprint
        fps == channels[ch].personalStats
    IN  (/\ pc[p] = "persSlow"
         /\ pc'[p] # "persSlow"
         /\ fp \notin DOMAIN fps
         /\ coldOn
         /\ Cold_Has(CS, ch, fp))
        => /\ pc'[p] = "rec"
           /\ Cold_Restore(CS, disk, ch, fp).ok
           /\ fp \in DOMAIN channels'[ch].personalStats
           /\ FR_GetData(channels'[ch].personalStats[fp])
                = Cold_Restore(CS, disk, ch, fp).data

\* the event is then applied to that record: one more view of the ID
AppliedOnTop(p) ==
    LET ev == CurEv(p)
        ch == ChanOf(ev)
        fp == ev.fingerprint
    IN  (/\ pc[p] = "rec"
         /\ pc'[p] # "rec"
         /\ ~cur[p].orphan)
        => /\ fp \in DOMAIN channels'[ch].personalStats
           /\ ViewsOf(FR_GetData(channels'[ch].personalStats[fp]), 1)
                = ViewsOf(FR_GetData(channels[ch].personalStats[fp]), 1) + 1

\* C20: when an event arrives for a fingerprint that is absent from the
\* directory and for which Has(channel, fp) is true, the record is rebuilt
\* from the cold data before the event is applied, so earlier counts are
\* kept: one stored view plus one new view of the same ID yields views = 2
C20_ColdRestoreBeforeApply ==
    [][RestoredOnArrival("g1") /\ AppliedOnTop("g1")]_vars

\* an event found its fingerprint in cold storage with one stored view of
\* ID 1: the record is back in the directory and the event is about to be
\* applied to it
C20_Witness ==
    /\ hist.op = "AggPersSlow"
    /\ hist.fromCold
    /\ pc["g1"] = "rec"
    /\ LET ev == CurEv("g1") IN
       /\ ev.fingerprint \in DOMAIN channels[ChanOf(ev)].personalStats
       /\ ViewsOf(FR_GetData(channels[ChanOf(ev)].personalStats[ev.fingerprint]),
                  1) = 1

----------------------------------------------------------------------------
\* Garbage collection of cold entries at Flush

\* the entries of the cold file of ch that are older than coldTTL at time t
ExpiredOnDisk(ch, t) ==
    LET cf == Cold_loadColdFileFromDisk(disk, ch) IN
    { fp \in DOMAIN cf.entries : t - cf.entries[fp].evictedAt > coldTTL }

\* C21: with coldTTL > 0, after any Flush that returns successfully, no cold
\* file of any channel holds an entry with now - evictedAt > coldTTL, and no
\* such fingerprint is reported by Has
C21_FlushCollectsExpired ==
    (coldTTL > 0 /\ hist.op = "Flush" /\ ~hist.err /\ hist.t = now) =>
        \A ch \in ChanNames :
            /\ ExpiredOnDisk(ch, now) = {}
            /\ \A fp \in index[ch] : fp \notin ExpiredOnDisk(ch, now)


----------------------------------------------------------------------------
\* The Scheduler: the goroutine started by Init (a select over the persist
\* ticker, the aggregate ticker and stopCh), and the caller of Init, Stop and
\* Persist.  sched.loop and sched.main are the positions of the two;
\* persistC and aggregateC are the one-slot channels of the two tickers;
\* todo is the set of channels EvictExpiredFingerprints has still to visit;
\* saves counts the persistence runs asked for; stopSeq is a mark Stop leaves.

opsMu_CanLock_never_blocks(s) == TRUE

\* s.opsMu.Lock() returns when nobody holds the mutex
opsMu_CanLock(s) == s.opsMu = "free"

opsMu_Lock(s, who) == [s EXCEPT !.opsMu = who]

\* defer s.opsMu.Unlock()
opsMu_Unlock(s) == [s EXCEPT !.opsMu = "free"]

SvcVars == <<cfgVars, bufVars, chanVars, procVars, coldVars, fileVars, frec,
             held, locks, now, logVars, hist>>

\* Scheduler.Init(): makes stopCh and starts the goroutine, which reaches its
\* select
Scheduler_Init ==
    /\ sched.main = "new"
    /\ sched' = [sched EXCEPT !.stopCh = "open", !.loop = "select",
                              !.main = "running"]
    /\ UNCHANGED SvcVars

\* which handler a tick of a ticker leads to
HandlerOf(t) == IF t = "persist" THEN "persistLock" ELSE "aggLock"

TickerChan(s, t) == IF t = "persist" THEN s.persistC ELSE s.aggregateC

SetTickerChan(s, t, v) ==
    IF t = "persist" THEN [s EXCEPT !.persistC = v]
    ELSE [s EXCEPT !.aggregateC = v]

\* a ticker fires: a goroutine blocked in the select takes the tick at once,
\* otherwise the tick waits in the ticker's channel (a tick that finds the
\* channel full is dropped).  A run asks for at most MaxSaves persistence
\* runs, one of them the Persist of the shutdown.
TickerFires(t) ==
    /\ sched.stopCh # "nil"
    /\ sched.loop # "exited"
    /\ ~TickerChan(sched, t)
    /\ t = "persist" => sched.saves < MaxSaves - 1
    /\ LET s1 == IF t = "persist" THEN [sched EXCEPT !.saves = @ + 1]
                 ELSE sched
       IN  sched' = IF sched.loop = "blocked"
                    THEN [s1 EXCEPT !.loop = HandlerOf(t)]
                    ELSE SetTickerChan(s1, t, TRUE)
    /\ UNCHANGED SvcVars

\* the select finds a tick waiting and calls its handler; when several cases
\* are ready it takes any of them
Select_ticker(t) ==
    /\ sched.loop = "select"
    /\ TickerChan(sched, t)
    /\ sched' = [SetTickerChan(sched, t, FALSE) EXCEPT !.loop = HandlerOf(t)]
    /\ UNCHANGED SvcVars

\* case <-s.stopCh: return
Select_stopCh ==
    /\ sched.loop = "select"
    /\ sched.stopCh = "closed"
    /\ sched' = [sched EXCEPT !.loop = "exited"]
    /\ UNCHANGED SvcVars

\* no case is ready: the goroutine blocks in the select
Select_block ==
    /\ sched.loop = "select"
    /\ sched.stopCh = "open"
    /\ ~sched.persistC
    /\ ~sched.aggregateC
    /\ sched' = [sched EXCEPT !.loop = "blocked"]
    /\ UNCHANGED SvcVars

\* Scheduler.Stop(): close(s.stopCh); a goroutine blocked in the select
\* wakes up in the stopCh case.  seq is what the run remembers of the moment
\* of the call in stopSeq.
Scheduler_Stop_at(seq) ==
    /\ sched.main = "running"
    /\ sched' = [sched EXCEPT
                   !.stopCh = "closed",
                   !.main = "stopped",
                   !.stopSeq = seq,
                   !.loop = IF @ = "blocked" THEN "exited" ELSE @]
    /\ UNCHANGED SvcVars

Scheduler_Stop == Scheduler_Stop_at(0)

\* doPersist: s.opsMu.Lock()
doPersist_Lock ==
    /\ sched.loop = "persistLock"
    /\ opsMu_CanLock(sched)
    /\ sched' = [opsMu_Lock(sched, "loop") EXCEPT !.loop = "save"]
    /\ wr' = [wr EXCEPT !.res = "none"]
    /\ UNCHANGED <<cfgVars, locks, bufVars, chanVars, procVars, coldVars, fsys, frec,
                   held, now, logVars, hist>>

\* Persist: s.opsMu.Lock()
Persist_Lock ==
    /\ sched.main = "stopped"
    /\ opsMu_CanLock(sched)
    /\ sched' = [opsMu_Lock(sched, "main") EXCEPT !.main = "save",
                                                  !.saves = @ + 1]
    /\ wr' = [wr EXCEPT !.res = "none"]
    /\ UNCHANGED <<cfgVars, locks, bufVars, chanVars, procVars, coldVars, fsys, frec,
                   held, now, logVars, hist>>

\* somebody is in s.fileManager.SaveToFile and the call has not returned
Saving ==
    /\ sched.loop = "save" \/ sched.main = "save"
    /\ ~(wr.pc = "idle" /\ wr.res # "none")

\* the steps of s.fileManager.SaveToFile
SaveToFile_step ==
    /\ Saving
    /\ \/ \E failing \in {"none"} \cup EncodeSteps("snap") :
            WriteBegin("snap", failing)
       \/ \E ok \in BOOLEAN : WriteCreate(ok)
       \/ \E ok \in BOOLEAN : WriteData(ok)
       \/ \E ok \in BOOLEAN : WriteSync(ok)
       \/ \E ok \in BOOLEAN : WriteClose(ok)
       \/ \E ok \in BOOLEAN : WriteRename(ok)

\* where a persistence run goes when SaveToFile has returned: back to the
\* caller on an error or without cold storage, on to cold.Flush otherwise
AfterSave(s, who, back) ==
    IF wr.res = "err" \/ ~coldOn
    THEN IF who = "loop" THEN [opsMu_Unlock(s) EXCEPT !.loop = back]
         ELSE [opsMu_Unlock(s) EXCEPT !.main = back]
    ELSE IF who = "loop" THEN [s EXCEPT !.loop = "flush"]
         ELSE [s EXCEPT !.main = "flush"]

\* doPersist: SaveToFile has returned
doPersist_saved ==
    /\ sched.loop = "save"
    /\ wr.pc = "idle"
    /\ wr.res # "none"
    /\ sched' = AfterSave(sched, "loop", "select")
    /\ UNCHANGED SvcVars

\* Persist: SaveToFile has returned
Persist_saved ==
    /\ sched.main = "save"
    /\ wr.pc = "idle"
    /\ wr.res # "none"
    /\ sched' = AfterSave(sched, "main", "done")
    /\ UNCHANGED SvcVars

\* doPersist: s.cold.Flush() (an error is only logged), unlock, return
doPersist_Flush(failing) ==
    /\ sched.loop = "flush"
    /\ ColdFlush_do(failing)
    /\ sched' = [opsMu_Unlock(sched) EXCEPT !.loop = "select"]

\* Persist: s.cold.Flush(), unlock, return
Persist_Flush(failing) ==
    /\ sched.main = "flush"
    /\ ColdFlush_do(failing)
    /\ sched' = [opsMu_Unlock(sched) EXCEPT !.main = "done"]

\* doAggregate: s.opsMu.Lock()
doAggregate_Lock ==
    /\ sched.loop = "aggLock"
    /\ opsMu_CanLock(sched)
    /\ sched' = [opsMu_Lock(sched, "loop") EXCEPT !.loop = "aggregate"]
    /\ UNCHANGED SvcVars

\* doAggregate: s.service.AggregateStats() is called
doAggregate_AggregateStats ==
    /\ sched.loop = "aggregate"
    /\ AggDrain_do("g1")
    /\ sched' = [sched EXCEPT !.loop = "aggregating"]

\* the steps of the AggregateStats call
AggregateStats_step ==
    /\ sched.loop = "aggregating"
    /\ \/ AggLoop("g1")
       \/ AggSlow("g1")
       \/ AggStat("g1")
       \/ AggPers("g1")
       \/ AggPersSlow("g1")
       \/ AggRec("g1")

\* doAggregate: AggregateStats has returned and
\* s.service.EvictExpiredFingerprints() is called
doAggregate_aggregated ==
    /\ sched.loop = "aggregating"
    /\ pc["g1"] = "idle"
    /\ sched' = [sched EXCEPT !.loop = "evict", !.todo = DOMAIN channels]
    /\ UNCHANGED SvcVars

\* EvictExpiredFingerprints: the next channel's EvictExpired
doAggregate_EvictExpired(ch) ==
    /\ sched.loop = "evict"
    /\ ch \in sched.todo
    /\ EvictExpired_do(ch)
    /\ sched' = [sched EXCEPT !.todo = @ \ {ch}]

\* doAggregate: the metrics are set, unlock, return
doAggregate_return ==
    /\ sched.loop = "evict"
    /\ sched.todo = {}
    /\ sched' = [opsMu_Unlock(sched) EXCEPT !.loop = "select"]
    /\ UNCHANGED SvcVars

----------------------------------------------------------------------------
\* Specification SpecSched: the application's run of a Scheduler (Init, later
\* Stop and then Persist) over a service with a fingerprint TTL of one tick,
\* with or without cold storage, while callers submit events.  The service
\* starts with a fingerprint last seen two ticks ago, which the first
\* doAggregate evicts.

SchedEvents ==
    { [channel |-> "", fingerprint |-> "f1", views |-> <<"1">>,
       clicks |-> <<>>] }

\* the personal store of a channel that saw one view of "f2" two ticks ago
SeenBefore ==
    [fp \in {"f2"} |->
        [viewed |-> {1}, clicked |-> {}, counts |-> EmptyMap,
         lastSeen |-> 0 - 2]]

InitSched ==
    /\ maxChannels = 1
    /\ maxRecords = 0 - 1
    /\ evictionPercent = NewStatStore_pct(10)
    /\ maxFingerprints = NewPersonalStatStore_max(0 - 1)
    /\ maxRecordsPerFP = 0 - 1
    /\ fingerprintTTL = 1
    /\ coldTTL = 0
    /\ coldOn \in BOOLEAN
    /\ InitBuffers
    /\ channels = [NewStatisticService_channels(maxChannels) EXCEPT
                      ![DefaultChannel].personalStats = SeenBefore]
    /\ cachedChannels = rebuildChannelCache(channels)
    /\ InitProcs
    /\ InitFiles
    /\ InitRecord
    /\ InitCold
    /\ now = 0
    /\ InitLogs

\* a request handler calls AddStats: the web server listens from after
\* scheduler.Init() until its Shutdown, which the application calls between
\* scheduler.Stop() and scheduler.Persist()
Serve_AddStats(ev) ==
    /\ sched.main \in {"running", "stopped"}
    /\ AddStats(ev)

SchedStep ==
    \/ Scheduler_Init
    \/ \E t \in {"persist", "aggregate"} : TickerFires(t)
    \/ \E t \in {"persist", "aggregate"} : Select_ticker(t)
    \/ Select_stopCh
    \/ Select_block
    \/ doPersist_Lock
    \/ SaveToFile_step
    \/ doPersist_saved
    \/ \E failing \in SUBSET ChanNames : doPersist_Flush(failing)
    \/ doAggregate_Lock
    \/ doAggregate_AggregateStats
    \/ AggregateStats_step
    \/ doAggregate_aggregated
    \/ \E ch \in ChanNames : doAggregate_EvictExpired(ch)
    \/ doAggregate_return
    \/ Persist_Lock
    \/ Persist_saved
    \/ \E failing \in SUBSET ChanNames : Persist_Flush(failing)
    \/ \E ev \in SchedEvents : Serve_AddStats(ev)

NextSched ==
    \/ SchedStep
    \/ Scheduler_Stop

SpecSched == InitSched /\ [][NextSched]_vars

InDoPersist == sched.loop \in {"save", "flush"}

InDoAggregate == sched.loop \in {"aggregate", "aggregating", "evict"}

InPersist == sched.main \in {"save", "flush"}

\* at most one of doAggregate, doPersist and Persist is past its Lock
OneAtATime == ~(InPersist /\ (InDoPersist \/ InDoAggregate))

\* C22: at no time are two of doAggregate, doPersist and Persist executing at
\* once, and no step of AggregateStats or of the eviction of expired
\* fingerprints is taken between the start of SaveToFile and the end of
\* cold.Flush of one persistence run
C22_OpsSerialized ==
    [][ /\ OneAtATime
        /\ OneAtATime'
        /\ (InPersist \/ InDoPersist) =>
              /\ pc' = pc
              /\ channels' = channels
              /\ sched'.todo = sched.todo ]_vars

\* C22 witness: the Persist of the shutdown waits for opsMu while the
\* goroutine is in the middle of the AggregateStats call of a doAggregate
C22_Witness ==
    /\ sched.main = "stopped"
    /\ sched.opsMu = "loop"
    /\ sched.loop = "aggregating"
    /\ pc["g1"] = "rec"


----------------------------------------------------------------------------
\* Specification SpecSchedFair: SpecSched with the scheduling the Go runtime
\* gives.  A goroutine that can take a step takes one (weak fairness of the
\* steps of the background goroutine and of the caller of Persist); a select
\* with several ready cases picks one at random, so a case that is ready
\* again and again is taken in the end (strong fairness of the stopCh case).

LoopStep ==
    \/ \E t \in {"persist", "aggregate"} : Select_ticker(t)
    \/ Select_block
    \/ doPersist_Lock
    \/ sched.loop = "save" /\ SaveToFile_step
    \/ doPersist_saved
    \/ \E failing \in SUBSET ChanNames : doPersist_Flush(failing)
    \/ doAggregate_Lock
    \/ doAggregate_AggregateStats
    \/ AggregateStats_step
    \/ doAggregate_aggregated
    \/ \E ch \in ChanNames : doAggregate_EvictExpired(ch)
    \/ doAggregate_return

MainStep ==
    \/ Persist_Lock
    \/ sched.main = "save" /\ SaveToFile_step
    \/ Persist_saved
    \/ \E failing \in SUBSET ChanNames : Persist_Flush(failing)

SpecSchedFair ==
    /\ InitSched
    /\ [][NextSched]_vars
    /\ WF_vars(LoopStep)
    /\ WF_vars(MainStep)
    /\ SF_vars(Select_stopCh)

\* after Stop the goroutine of Init returns in the end
StopEndsLoop == (sched.stopCh = "closed") ~> (sched.loop = "exited")

\* the select takes a ticker case: doPersist or doAggregate is started
TickStarts ==
    /\ sched.loop = "select"
    /\ sched'.loop \in {"persistLock", "aggLock"}

\* C23: after Stop on an initialised scheduler the background loop eventually
\* exits, and once the tick in progress at the time of the call has finished
\* (the goroutine is back at its select) no further doAggregate or doPersist
\* is started
C23_StopEndsTicks ==
    /\ StopEndsLoop
    /\ [][sched.stopCh = "closed" => ~TickStarts]_vars


----------------------------------------------------------------------------
\* Specification SpecStore: a StatStore on its own (the trend store of the
\* default channel).  Callers call IncStats with one view or one click at a
\* time (a call with several tokens does under one lock what the calls with
\* its tokens one by one do); the cap is off, 0, 1 or MaxCapCfg; the eviction
\* percentage is the default or 75.  The record of a call keeps the store it
\* started from and, per ID, the largest ftr the store has held for it.

Store == channels[DefaultChannel].statistic

StoreSeeds ==
    { EmptyMap,
      [id \in {1} |-> Rec(512, 100, 0)],
      [id \in {1, 2} |-> IF id = 1 THEN Rec(512, 1, 0) ELSE Rec(2, 0, 0)] }

StoreIDs == {1, 2, 3}

StoreTokens == {"1", "2", "3"}

MaxOf(a, b) == IF a > b THEN a ELSE b

\* the largest ftr held so far per ID, after the store became st
FtrSeen(seen, st) ==
    [id \in StoreIDs |->
        IF id \in DOMAIN st THEN MaxOf(seen[id], st[id].ftr) ELSE seen[id]]

StoreEvent(kind, tok) ==
    [channel |-> "", fingerprint |-> "f1",
     views  |-> IF kind = "view" THEN <<tok>> ELSE <<>>,
     clicks |-> IF kind = "click" THEN <<tok>> ELSE <<>>]

InitStore ==
    /\ maxChannels = 1
    /\ maxRecords \in {0 - 1, 0, 1, MaxCapCfg}
    /\ evictionPercent \in {NewStatStore_pct(0), NewStatStore_pct(75)}
    /\ maxFingerprints = NewPersonalStatStore_max(0 - 1)
    /\ maxRecordsPerFP = 0 - 1
    /\ fingerprintTTL = 0
    /\ coldTTL = 0
    /\ coldOn = FALSE
    /\ InitBuffers
    /\ \E seed \in StoreSeeds :
          /\ maxRecords >= 0 => Len0(seed) <= maxRecords
          /\ channels = [NewStatisticService_channels(maxChannels)
                            EXCEPT ![DefaultChannel].statistic = seed]
    /\ cachedChannels = rebuildChannelCache(channels)
    /\ InitProcs
    /\ InitFiles
    /\ InitRecord
    /\ InitCold
    /\ now = 0
    /\ nextSeq = 1
    /\ drained = <<>>
    /\ applied = [trend   |-> [c \in ChanNames |-> <<>>],
                  pers    |-> [c \in ChanNames |-> <<>>],
                  overlap |-> FALSE]
    /\ hist = [op |-> "Init",
               seen |-> FtrSeen([id \in StoreIDs |-> 0], Store)]

\* s.IncStats(&InputStats{...}) with one token
StoreIncStats(kind, tok) ==
    /\ nextSeq <= MaxEvents
    /\ nextSeq' = nextSeq + 1
    /\ \E d \in StatStore_IncStats(Store, StoreEvent(kind, tok), maxRecords,
                                   evictionPercent) :
          /\ SetChannel(DefaultChannel, "statistic", d)
          /\ hist' = [op |-> "StoreIncStats", kind |-> kind,
                      id |-> AtoiVal(tok), pre |-> Store,
                      was |-> hist.seen, seen |-> FtrSeen(hist.seen, d)]
    /\ UNCHANGED <<cfgVars, locks, sched, fileVars, frec, held, bufVars,
                   cachedChannels, procVars, coldVars, now, drained, applied>>

NextStore ==
    \E kind \in {"view", "click"} : \E tok \in StoreTokens :
        StoreIncStats(kind, tok)

SpecStore == InitStore /\ [][NextStore]_vars

\* the last call inserted an ID the store did not hold
Inserted == hist.op = "StoreIncStats" /\ hist.id \notin DOMAIN hist.pre

\* the entries the last call deleted
Deleted == DOMAIN hist.pre \ DOMAIN Store

\* the last call found the store at or above its cap
AtCap == maxRecords >= 0 /\ Len0(hist.pre) >= maxRecords

\* the counterpart of C24 with the target as the claim states it
C24_Original ==
    (Inserted /\ AtCap) =>
        Cardinality(Deleted) =
            Min(MaxOf(1, (maxRecords * evictionPercent + 99) \div 100),
                Len0(hist.pre))

\* C24: when a new ID is inserted into a StatStore with |store| >= maxRecords
\* >= 0, exactly max(1, maxRecords * evictionPercent / 100 rounded down)
\* entries are deleted before the insertion (all entries if the store holds
\* fewer)
C24_EvictsTruncatedTarget ==
    (Inserted /\ AtCap) =>
        /\ Cardinality(Deleted) =
              Min(MaxOf(1, (maxRecords * evictionPercent) \div 100),
                  Len0(hist.pre))
        /\ DOMAIN Store = (DOMAIN hist.pre \ Deleted) \cup {hist.id}

\* C24 witness: a store of two entries at its cap of two with 75 percent (1.5
\* entries) lost exactly one entry to the insertion of a third ID
C24_Witness ==
    /\ Inserted
    /\ AtCap
    /\ maxRecords = 2
    /\ evictionPercent = 75
    /\ Len0(hist.pre) = 2
    /\ Cardinality(Deleted) = 1


\* C25: every batch eviction of a StatStore removes the entries with the
\* smallest views: no entry that survives an eviction has fewer views than
\* an entry removed by it
C25_EvictsLowestViews ==
    (Inserted /\ Deleted # {}) =>
        \A r \in Deleted : \A k \in DOMAIN hist.pre \ Deleted :
            /\ k \in DOMAIN Store
            /\ hist.pre[k].views >= hist.pre[r].views

\* C25 witness: an eviction removed an entry and left one with more views
C25_Witness ==
    /\ Inserted
    /\ \E r \in Deleted : \E k \in DOMAIN hist.pre \ Deleted :
          hist.pre[k].views > hist.pre[r].views


\* the counterpart of C26 over the whole run: no ID is held with a smaller
\* ftr than the store has held for it before
C26_Original ==
    hist.op = "StoreIncStats" =>
        \A id \in DOMAIN Store : Store[id].ftr >= hist.was[id]

\* C26: for every content ID, the ftr value a StatStore holds for it never
\* decreases over IncStats calls while the ID stays in the store; an ID that
\* is inserted (for the first time or again after its eviction) starts at 0
C26_FtrMonotoneWhileHeld ==
    hist.op = "StoreIncStats" =>
        \A id \in DOMAIN Store :
            IF id \in DOMAIN hist.pre
            THEN Store[id].ftr >= hist.pre[id].ftr
            ELSE Store[id].ftr = 0

\* C26 witness: an ID whose record had been halved and was evicted since is
\* inserted again
C26_Witness ==
    /\ Inserted
    /\ hist.was[hist.id] >= 1
    /\ hist.id \in DOMAIN Store


\* n / 2 rounded up
HalfUp(n) == (n \div 2) + (n % 2)

\* a FingerprintRecord that holds ID 1 with the counts c
RecordWith(c) ==
    [viewed |-> {1}, clicked |-> {1}, counts |-> [id \in {1} |-> c],
     lastSeen |-> 0]

\* C29: a view that would raise a record's views above 512 replaces views by
\* (views + 1) / 2 rounded up and clicks by clicks / 2 rounded up and
\* increments ftr by one, in a StatStore and in the counts of a
\* FingerprintRecord: {views: 512, clicks: 100, ftr: 0} becomes
\* {views: 257, clicks: 50, ftr: 1} after one more view
C29_HalvingRoundsUp ==
    /\ (hist.op = "StoreIncStats" /\ hist.kind = "view"
           /\ hist.id \in DOMAIN hist.pre) =>
          LET old == hist.pre[hist.id] IN
          /\ hist.id \in DOMAIN Store
          /\ IF old.views + 1 > HalvingLimit
             THEN Store[hist.id] = Rec(HalfUp(old.views + 1),
                                       HalfUp(old.clicks), old.ftr + 1)
             ELSE Store[hist.id] = Rec(old.views + 1, old.clicks, old.ftr)
          /\ old = Rec(512, 100, 0) => Store[hist.id] = Rec(257, 50, 1)
    /\ \A c \in {Rec(512, 100, 0), Rec(512, 1, 0), Rec(512, 3, 1)} :
          FR_incView(RecordWith(c), "1", maxRecordsPerFP, evictionPercent) =
             { RecordWith(Rec(HalfUp(c.views + 1), HalfUp(c.clicks),
                              c.ftr + 1)) }

\* C29 witness: one more view has turned {512, 100, 0} into {257, 50, 1}
C29_Witness ==
    /\ hist.op = "StoreIncStats"
    /\ hist.kind = "view"
    /\ hist.id \in DOMAIN hist.pre
    /\ hist.pre[hist.id] = Rec(512, 100, 0)
    /\ Store[hist.id] = Rec(257, 50, 1)


----------------------------------------------------------------------------
\* Loading a snapshot: FileManager.LoadFromFile
\*
\* A snapshot file is what a writer of its format version wrote: V1 the bare
\* map of the trend records, V2 {trend_stats, personal_stats}, V3 {channels},
\* V4 {version: 4, channels}, V5 the binary form.  The files of the model
\* hold trend records only (their personal_stats are empty maps).  The
\* writers of V1 to V3 kept the IDs as signed ints.

StatStore_PutData_noFtr(trend) ==
    [id \in { k \in DOMAIN trend : k >= 0 } |->
        Rec(trend[id].views, trend[id].clicks, 0)]

\* StatStore.PutData: a new map with every record whose key is not negative
StatStore_PutData(trend) ==
    [id \in { k \in DOMAIN trend : k >= 0 } |-> trend[id]]

\* PutChannelData / PutChannelDataV4: a channel the directory has no room for
\* is skipped
PutChannelData(chs, name, trend, maxCh) ==
    LET r == getOrCreateChannel(chs, name, maxCh) IN
    IF ~r.ok THEN chs
    ELSE [r.channels EXCEPT ![name].statistic = StatStore_PutData(trend),
                            ![name].personalStats = EmptyMap]

\* for ch, cd := range storage.Channels, in the order `order`
RECURSIVE PutChannels(_, _, _, _)
PutChannels(chs, chans, order, maxCh) ==
    IF order = <<>> THEN chs
    ELSE PutChannels(PutChannelData(chs, Head(order), chans[Head(order)], maxCh),
                     chans, Tail(order), maxCh)

\* the binary form is read channel by channel, the records as they are (the
\* IDs of the binary form are unsigned)
ReadBinarySnapshot(chs, chans, order, maxCh) ==
    PutChannels(chs, chans, order, maxCh)

\* LoadFromFile: the directories the call can leave (Go ranges over the
\* channels of the file in any order)
LoadFromFile_channels(f, chs, maxCh) ==
    IF f.shape = "binary"
    THEN { ReadBinarySnapshot(chs, f.chans, o, maxCh) :
              o \in Orders(DOMAIN f.chans) }
    ELSE IF f.shape = "channels"
    THEN { PutChannels(chs, f.chans, o, maxCh) : o \in Orders(DOMAIN f.chans) }
    ELSE { PutChannelData(chs, DefaultChannel, f.chans[DefaultChannel], maxCh) }

ShapeOf(v) ==
    CASE v = 1 -> "map"
      [] v = 2 -> "v2"
      [] v \in {3, 4} -> "channels"
      [] OTHER -> "binary"

\* trend tables of the files
Saved1 == [id \in {1} |-> Rec(42, 5, 0)]

Saved2 == [id \in {1, 2} |-> IF id = 1 THEN Rec(257, 50, 1) ELSE Rec(0, 1, 0)]

SavedNeg == [id \in {0 - 1, 1} |-> IF id = 1 THEN Rec(42, 5, 0) ELSE Rec(1, 0, 0)]

TrendsOf(v) == IF v <= 3 THEN {Saved1, Saved2, SavedNeg} ELSE {Saved1, Saved2}

FileChannelSets(v) ==
    IF v <= 2 THEN { {DefaultChannel} }
    ELSE { {DefaultChannel}, {DefaultChannel, "a"}, {DefaultChannel, "a", "b"} }

SnapshotFiles ==
    UNION { UNION { { [ver |-> v, shape |-> ShapeOf(v), chans |-> c] :
                        c \in { g \in [cs -> TrendsOf(v)] :
                                  \A n \in cs \ {DefaultChannel} :
                                      g[n] \in {Saved1, Saved2} } } :
                    cs \in FileChannelSets(v) } :
            v \in 1..5 }

\* Specification SpecLoad: a new service with its channel cap loads one
\* snapshot file at startup.

InitLoad ==
    /\ maxChannels \in {0, 1, MaxCapCfg}
    /\ maxRecords = 0 - 1
    /\ evictionPercent = NewStatStore_pct(10)
    /\ maxFingerprints = NewPersonalStatStore_max(0 - 1)
    /\ maxRecordsPerFP = 0 - 1
    /\ fingerprintTTL = 0
    /\ coldTTL = 0
    /\ coldOn = FALSE
    /\ InitBuffers
    /\ channels = NewStatisticService_channels(maxChannels)
    /\ cachedChannels = rebuildChannelCache(channels)
    /\ InitProcs
    /\ InitFiles
    /\ InitRecord
    /\ InitCold
    /\ now = 0
    /\ InitLogs

\* Scheduler.Restore at startup: fileManager.LoadFromFile(path)
LoadFromFile(f) ==
    /\ hist.op = "Init"
    /\ channels' \in LoadFromFile_channels(f, channels, maxChannels)
    /\ cachedChannels' = rebuildChannelCache(channels')
    /\ hist' = [op |-> "LoadFromFile", file |-> f]
    /\ UNCHANGED <<cfgVars, locks, sched, fileVars, frec, held, bufVars, procVars,
                   coldVars, now, logVars>>

NextLoad == \E f \in SnapshotFiles : LoadFromFile(f)

SpecLoad == InitLoad /\ [][NextLoad]_vars

Loaded == hist.op = "LoadFromFile"

----------------------------------------------------------------------------
\* The channel directory over a run

\* no channel leaves the directory in the step
DirectoryGrows == DOMAIN channels \subseteq DOMAIN channels'

----------------------------------------------------------------------------
\* Specification SpecRace: PersonalStatStore.IncStats and EvictExpired called
\* concurrently, as the store's own locks allow: one AggregateStats caller
\* applies events of channel "a" while another caller evicts expired
\* fingerprints to cold storage at any moment and the clock advances.

InitRace ==
    /\ maxChannels = 2
    /\ maxRecords = 0 - 1
    /\ evictionPercent = NewStatStore_pct(10)
    /\ maxFingerprints = NewPersonalStatStore_max(0 - 1)
    /\ maxRecordsPerFP = 0 - 1
    /\ fingerprintTTL = 1
    /\ coldTTL = 0
    /\ coldOn = TRUE
    /\ InitBuffers
    /\ channels = NewStatisticService_channels(maxChannels)
    /\ cachedChannels = rebuildChannelCache(channels)
    /\ InitProcs
    /\ InitFiles
    /\ InitRecord
    /\ InitCold
    /\ now = 0
    /\ InitLogs

NextRace ==
    \/ \E ev \in PSSEvents : AddStats(ev)
    \/ AggStep("g1")
    \/ \E ch \in ChanNames : EvictExpired(ch)
    \/ Tick

SpecRace == InitRace /\ [][NextRace]_vars

\* the views of ID 1 the engine holds for fp of ch: in the record of the
\* directory, else in the data handed to cold storage and not yet flushed
HeldViews(chs, pend, ch, fp) ==
    IF ch \in DOMAIN chs /\ fp \in DOMAIN chs[ch].personalStats
    THEN ViewsOf(FR_GetData(chs[ch].personalStats[fp]), 1)
    ELSE IF fp \in DOMAIN pend[ch] THEN ViewsOf(pend[ch][fp].data, 1)
    ELSE 0

\* p applies the event to the record that its read-locked lookup found in the
\* directory
AppliesToRecord(p) == pc[p] = "rec" /\ cur[p].fast /\ pc'[p] # "rec"

\* C30: when IncStats for a fingerprint already in the directory runs
\* concurrently with EvictExpired, the event's increments are never lost:
\* the view ends up in the record that stays in the directory or in the data
\* handed to cold storage, never in a record that has already been removed
\* from the directory
C30_IncrementsNotLost ==
    [][ AppliesToRecord("g1") =>
           LET ev == CurEv("g1") IN
           HeldViews(channels', pending', ChanOf(ev), ev.fingerprint)
             = HeldViews(channels, pending, ChanOf(ev), ev.fingerprint) + 1
      ]_vars

----------------------------------------------------------------------------
\* the doPersist run of the background goroutine leaves SaveToFile
SaveReturns == sched.loop = "save" /\ sched'.loop # "save"

\* C31: every doPersist run with cold storage configured calls SaveToFile and
\* then cold.Flush; an error of SaveToFile is logged and does not keep the
\* run from calling cold.Flush
C31_PersistAlwaysFlushes ==
    [][ (coldOn /\ SaveReturns) => sched'.loop = "flush" ]_vars

----------------------------------------------------------------------------
\* Specification SpecShutdown: SpecSched where Stop leaves in stopSeq the
\* number the next AddStats would get: the events numbered below it were
\* accepted before the shutdown began.

NextShutdown ==
    \/ SchedStep
    \/ Scheduler_Stop_at(nextSeq)

SpecShutdown == InitSched /\ [][NextShutdown]_vars

\* Persist returns nil: SaveToFile succeeded and, with cold storage, so did
\* cold.Flush
PersistReturnsNil ==
    /\ sched'.main = "done"
    /\ \/ sched.main = "save" /\ wr.res = "ok" /\ ~coldOn
       \/ sched.main = "flush" /\ hist'.op = "Flush" /\ ~hist'.err

\* the event submitted as the s-th has been applied to the trend and to the
\* personal counters of the default channel.  Persist holds opsMu from before
\* SaveToFile's GetSnapshot until it returns and AggregateStats runs under
\* opsMu only, so at the return of Persist the counters are those of the
\* snapshot it wrote.
InSnapshot(s) ==
    /\ \E i \in 1..Len(applied.trend[DefaultChannel]) :
          applied.trend[DefaultChannel][i] = s
    /\ \E i \in 1..Len(applied.pers[DefaultChannel]) :
          applied.pers[DefaultChannel][i] = s

\* C32: after Stop and then a Persist that returns without error, the
\* snapshot on disk reflects every event whose AddStats returned before the
\* shutdown began, the events still waiting in the ingest buffer included
C32_ShutdownKeepsAccepted ==
    [][ PersistReturnsNil =>
           /\ fsys'["data"].has /\ fsys'["data"].whole
           /\ \A s \in 1..(sched.stopSeq - 1) : InSnapshot(s) ]_vars

----------------------------------------------------------------------------
\* Specification SpecTier: the hot and the cold tier of fingerprint "f1" of
\* channel "a".  One AggregateStats caller applies its events (IncStats, with
\* the restore of the cold fingerprint on its slow path) while other callers
\* evict expired fingerprints, call Restore and Flush (failing or not) at any
\* moment, and the clock advances; cold entries expire after a tick or never.

TierEvents == { ev \in PSSEvents : ev.fingerprint = "f1" }

InitTier ==
    /\ maxChannels = 2
    /\ maxRecords = 0 - 1
    /\ evictionPercent = NewStatStore_pct(10)
    /\ maxFingerprints = NewPersonalStatStore_max(0 - 1)
    /\ maxRecordsPerFP = 0 - 1
    /\ fingerprintTTL = 1
    /\ coldTTL \in {0, 1}
    /\ coldOn = TRUE
    /\ InitBuffers
    /\ channels = NewStatisticService_channels(maxChannels)
    /\ cachedChannels = rebuildChannelCache(channels)
    /\ InitProcs
    /\ InitFiles
    /\ InitRecord
    /\ InitCold
    /\ now = 0
    /\ InitLogs

NextTier ==
    \/ \E ev \in TierEvents : AddStats(ev)
    \/ AggStep("g1")
    \/ \E ch \in ChanNames : EvictExpired(ch)
    \/ ColdRestore("a", "f1")
    \/ \E failing \in SUBSET ChanNames : ColdFlush(failing)
    \/ Tick

SpecTier == InitTier /\ [][NextTier]_vars

\* the fingerprints of ch that are in its directory and reported cold
HotAndCold(ch) ==
    { fp \in DOMAIN channels[ch].personalStats : Cold_Has(CS, ch, fp) }

----------------------------------------------------------------------------
\* Specification SpecLocks: the calls of the engine as the sequences of Lock,
\* RLock, Unlock and RUnlock they execute, run by two goroutines that each
\* call any operation at any time.  Of the work done under the locks only
\* the branch taken matters here, so every branch of a call is one of its
\* sequences.

Lock(l) == << [a |-> "Lock", l |-> l] >>

RLock(l) == << [a |-> "RLock", l |-> l] >>

Unlock(l) == << [a |-> "Unlock", l |-> l] >>

RUnlock(l) == << [a |-> "RUnlock", l |-> l] >>

\* the sequences of a call followed by those of the next call
Then(A, B) == { x \o y : x \in A, y \in B }

\* StatisticService.AddStats
Locks_AddStats == { Lock("mu") \o Unlock("mu") }

\* getOrCreateChannel: the fast path, or the fast path and the slow path
Locks_getOrCreateChannel ==
    { RLock("chMu") \o RUnlock("chMu"),
      RLock("chMu") \o RUnlock("chMu") \o Lock("chMu") \o Unlock("chMu") }

\* StatStore.IncStats
Locks_StatStore_IncStats == { Lock("st") \o Unlock("st") }

\* FingerprintRecord.IncStats
Locks_FR_IncStats == { Lock("rec") \o Unlock("rec") }

\* tryRestoreFromCold: cold.Has, and cold.Restore when Has says yes
Locks_tryRestoreFromCold ==
    { <<>>,
      RLock("cs") \o RUnlock("cs"),
      RLock("cs") \o RUnlock("cs") \o Lock("cs") \o Unlock("cs") }

\* PersonalStatStore.IncStats: the fast path; the slow path that finds the
\* record; the slow path with the cold lookup, which ends with or without a
\* record to apply the event to
Locks_PSS_IncStats ==
    LET fast == { RLock("ps") \o RUnlock("ps") }
        hit  == { Lock("ps") \o Unlock("ps") }
        cold == Then({ Lock("ps") }, Then(Locks_tryRestoreFromCold,
                                          { Unlock("ps") }))
    IN  Then(fast, Locks_FR_IncStats)
          \cup Then(fast, Then(hit, Locks_FR_IncStats))
          \cup Then(fast, Then(cold, Locks_FR_IncStats))
          \cup Then(fast, cold)

\* StatisticService.AggregateStats with an empty batch, with an event whose
\* channel is refused, and with an event that is applied
Locks_AggregateStats ==
    LET swap == { Lock("mu") \o Unlock("mu") }
    IN  swap
          \cup Then(swap, Locks_getOrCreateChannel)
          \cup Then(swap, Then(Locks_getOrCreateChannel,
                      Then(Locks_StatStore_IncStats, Locks_PSS_IncStats)))

\* the lookup of a channel in the directory by a query
Locks_lookup == { RLock("chMu") \o RUnlock("chMu") }

\* StatStore.GetData, StatStore.Len
Locks_StatStore_GetData == { RLock("st") \o RUnlock("st") }

\* PersonalStatStore.GetData and Get: rec.GetData under the store's read lock
Locks_PSS_GetData ==
    { RLock("ps") \o RUnlock("ps"),
      RLock("ps") \o RLock("rec") \o RUnlock("rec") \o RUnlock("ps") }

\* GetStatistic, GetRecordCount, GetPersonalStatistic, GetByFingerprint,
\* GetChannels
Locks_queries ==
    Locks_lookup
      \cup Then(Locks_lookup, Locks_StatStore_GetData)
      \cup Then(Locks_lookup, Locks_PSS_GetData)

\* StatisticService.GetSnapshot: the stores are read under the directory's
\* read lock
Locks_GetSnapshot ==
    Then({ RLock("chMu") },
         Then(Locks_StatStore_GetData,
              Then(Locks_PSS_GetData, { RUnlock("chMu") })))

Locks_EvictExpired_coldFirst ==
    { <<>>,
      Lock("ps") \o Unlock("ps"),
      Lock("cs") \o Lock("ps") \o RLock("rec") \o RUnlock("rec")
        \o RLock("rec") \o RUnlock("rec") \o Unlock("ps") \o Unlock("cs") }

\* PersonalStatStore.EvictExpired: nothing with the TTL off; else under the
\* store's write lock rec.LastSeen() and, for an expired record,
\* rec.GetData() and then cold.Evict
Locks_EvictExpired ==
    { <<>>,
      Lock("ps") \o Unlock("ps"),
      Lock("ps") \o RLock("rec") \o RUnlock("rec") \o Unlock("ps"),
      Lock("ps") \o RLock("rec") \o RUnlock("rec")
        \o RLock("rec") \o RUnlock("rec")
        \o Lock("cs") \o Unlock("cs") \o Unlock("ps") }

\* EvictExpiredFingerprints: the fan-out over the channels of the directory,
\* under its read lock
Locks_EvictExpiredFingerprints ==
    Then({ RLock("chMu") }, Then(Locks_EvictExpired, { RUnlock("chMu") }))

\* ColdStorage.Evict, Restore, Flush and RestoreIndex take cs.mu; Has reads
\* under it
Locks_ColdStorage ==
    { Lock("cs") \o Unlock("cs"), RLock("cs") \o RUnlock("cs") }

\* Scheduler.doAggregate: AggregateStats, EvictExpiredFingerprints, then
\* GetChannels and GetRecordCount for the gauges, all under opsMu
Locks_doAggregate ==
    Then({ Lock("opsMu") },
         Then(Locks_AggregateStats,
              Then(Locks_EvictExpiredFingerprints,
                   Then(Locks_lookup,
                        Then(Then(Locks_lookup, Locks_StatStore_GetData),
                             { Unlock("opsMu") })))))

\* Scheduler.doPersist and Persist: SaveToFile (GetSnapshot), and cold.Flush
\* unless SaveToFile failed or there is no cold storage, under opsMu
Locks_doPersist ==
    Then({ Lock("opsMu") },
         Then(Locks_GetSnapshot,
              Then({ <<>>, Lock("cs") \o Unlock("cs") },
                   { Unlock("opsMu") })))

\* what a goroutine may call
Calls ==
    Locks_AddStats \cup Locks_AggregateStats \cup Locks_queries
      \cup Locks_GetSnapshot \cup Locks_EvictExpiredFingerprints
      \cup Locks_ColdStorage \cup Locks_doAggregate \cup Locks_doPersist

Busy(t) == locks.todo[t] # <<>>

NextOp(t) == Head(locks.todo[t])

\* some goroutine has called Lock on l and is blocked in it: an RWMutex then
\* admits no new reader
WriterWaits(l) ==
    \E u \in Threads :
        Busy(u) /\ locks.waiting[u] /\ NextOp(u).a = "Lock" /\ NextOp(u).l = l

\* the call t is in can take its next step
CanStep(t) ==
    /\ Busy(t)
    /\ LET o == NextOp(t) IN
       CASE o.a = "Lock"  -> ~locks.waiting[t]
                               \/ (locks.w[o.l] = "none" /\ locks.r[o.l] = {})
         [] o.a = "RLock" -> locks.w[o.l] = "none" /\ ~WriterWaits(o.l)
         [] OTHER         -> TRUE

LockVars == <<cfgVars, bufVars, chanVars, procVars, coldVars, fileVars, frec,
              held, sched, now, logVars, hist>>

\* a goroutine calls an operation
Call(t) ==
    /\ ~Busy(t)
    /\ \E c \in Calls \ {<<>>} : locks' = [locks EXCEPT !.todo[t] = c]
    /\ UNCHANGED LockVars

\* mu.Lock() is called and does not return at once
LockArrive(t) ==
    /\ Busy(t)
    /\ NextOp(t).a = "Lock"
    /\ ~locks.waiting[t]
    /\ locks' = [locks EXCEPT !.waiting[t] = TRUE]
    /\ UNCHANGED LockVars

\* mu.Lock() returns: no writer and no reader is left
LockAcquire(t) ==
    /\ Busy(t)
    /\ NextOp(t).a = "Lock"
    /\ locks.w[NextOp(t).l] = "none"
    /\ locks.r[NextOp(t).l] = {}
    /\ locks' = [locks EXCEPT !.w[NextOp(t).l] = t,
                              !.waiting[t] = FALSE,
                              !.holds[t] = Append(@, NextOp(t).l),
                              !.todo[t] = Tail(@)]
    /\ UNCHANGED LockVars

\* mu.RLock() returns: no writer holds the lock and none waits for it
LockRAcquire(t) ==
    /\ Busy(t)
    /\ NextOp(t).a = "RLock"
    /\ CanStep(t)
    /\ locks' = [locks EXCEPT !.r[NextOp(t).l] = @ \cup {t},
                              !.holds[t] = Append(@, NextOp(t).l),
                              !.todo[t] = Tail(@)]
    /\ UNCHANGED LockVars

\* the locks t holds without the one it took last of those named l
Released(hs, l) ==
    LET i == CHOOSE k \in 1..Len(hs) :
                 hs[k] = l /\ \A j \in (k + 1)..Len(hs) : hs[j] # l
    IN  SubSeq(hs, 1, i - 1) \o SubSeq(hs, i + 1, Len(hs))

\* mu.Unlock() / mu.RUnlock()
LockRelease(t) ==
    /\ Busy(t)
    /\ NextOp(t).a \in {"Unlock", "RUnlock"}
    /\ LET l == NextOp(t).l IN
       locks' = [locks EXCEPT
                   !.w[l] = IF NextOp(t).a = "Unlock" THEN "none" ELSE @,
                   !.r[l] = IF NextOp(t).a = "RUnlock" THEN @ \ {t} ELSE @,
                   !.holds[t] = Released(@, l),
                   !.todo[t] = Tail(@)]
    /\ UNCHANGED LockVars

NextLocks ==
    \E t \in Threads :
        \/ Call(t)
        \/ LockArrive(t)
        \/ LockAcquire(t)
        \/ LockRAcquire(t)
        \/ LockRelease(t)

\* the service as constructed; its data plays no part
InitLocks ==
    /\ Init
    /\ maxChannels = 2

SpecLocks == InitLocks /\ [][NextLocks]_vars

\* the place of a lock in the order: the scheduler's opsMu, then the locks
\* of the service (buffers, directory), then those of a channel's stores,
\* then that of a record of the personal store, then cold storage
LockLevel(l) ==
    CASE l = "opsMu" -> 0
      [] l \in {"mu", "chMu"} -> 1
      [] l \in {"st", "ps"} -> 2
      [] l = "rec" -> 3
      [] OTHER -> 4

\* every goroutine holds its locks in ascending order
InLockOrder ==
    \A t \in Threads :
        \A i \in 1..Len(locks.holds[t]) : \A j \in 1..Len(locks.holds[t]) :
            i < j => LockLevel(locks.holds[t][i]) < LockLevel(locks.holds[t][j])

\* C34: no interleaving of AddStats, AggregateStats, the queries,
\* GetSnapshot, EvictExpiredFingerprints, the operations of ColdStorage and
\* the scheduler's doAggregate, doPersist and Persist reaches a deadlock (a
\* state where calls are in progress and none of them can take a step), and
\* locks are only taken in the order service directory, channel sublock,
\* cold storage
C34_NoDeadlock ==
    /\ (\E t \in Threads : Busy(t)) => (\E t \in Threads : CanStep(t))
    /\ InLockOrder

\* C34 witness: one goroutine is on the slow path of IncStats, holding the
\* personal store's write lock and cold storage; the other is in a
\* doPersist, holds opsMu and the directory's read lock and is blocked on
\* the personal store
C34_Witness ==
    \E t \in Threads : \E u \in Threads \ {t} :
        /\ locks.holds[t] = <<"ps", "cs">>
        /\ locks.holds[u] = <<"opsMu", "chMu">>
        /\ NextOp(u) = [a |-> "RLock", l |-> "ps"]
        /\ ~CanStep(u)

----------------------------------------------------------------------------
\* Specification SpecCaps: a service with room for one channel besides
\* "default" and for one fingerprint per channel.  One AggregateStats caller
\* applies events of two fingerprints of channel "a" and of a fingerprint of
\* channel "b"; each event views ID 1 and clicks ID 2.

CapEvents ==
    { [channel |-> "a", fingerprint |-> "f1", views |-> <<"1">>, clicks |-> <<"2">>],
      [channel |-> "a", fingerprint |-> "f2", views |-> <<"1">>, clicks |-> <<"2">>],
      [channel |-> "b", fingerprint |-> "f1", views |-> <<"1">>, clicks |-> <<"2">>] }

InitCaps ==
    /\ maxChannels = 2
    /\ maxRecords = 0 - 1
    /\ evictionPercent = NewStatStore_pct(10)
    /\ maxFingerprints = NewPersonalStatStore_max(1)
    /\ maxRecordsPerFP = 0 - 1
    /\ fingerprintTTL = 0
    /\ coldTTL = 0
    /\ coldOn = FALSE
    /\ InitBuffers
    /\ channels = NewStatisticService_channels(maxChannels)
    /\ cachedChannels = rebuildChannelCache(channels)
    /\ InitProcs
    /\ InitFiles
    /\ InitRecord
    /\ InitCold
    /\ now = 0
    /\ InitLogs

NextCaps ==
    \/ \E ev \in CapEvents : AddStats(ev)
    \/ AggStep("g1")

SpecCaps == InitCaps /\ [][NextCaps]_vars

\* getOrCreateChannel returns nil for the event of g1: 'continue'
ChannelRefused ==
    /\ pc["g1"] = "slow"
    /\ hist'.op = "AggSlow"
    /\ ~hist'.ok

\* PersonalStatStore.IncStats returns at the fingerprint limit
FingerprintRefused ==
    /\ pc["g1"] = "persSlow"
    /\ hist'.op = "AggPersSlow"
    /\ ~hist'.ok

\* the trend store of a channel that has gone through the IncStats calls of
\* the events numbered seqs, in that order
RECURSIVE TrendAfter(_)
TrendAfter(seqs) ==
    IF seqs = <<>> THEN EmptyMap
    ELSE LET before == TrendAfter(SubSeq(seqs, 1, Len(seqs) - 1))
         IN  CHOOSE d \in StatStore_IncStats(before, EvBySeq(seqs[Len(seqs)]),
                                             maxRecords, evictionPercent) : TRUE

Without(seqs, s) == SelectSeq(seqs, LAMBDA x : x # s)

PersonalOf(chs) == [ch \in DOMAIN chs |-> chs[ch].personalStats]

\* C35 (as stated): an event that is dropped for capacity reasons (channel cap
\* or fingerprint cap reached) changes no counter at all: the trend StatStore
\* of its channel is as if the event had never come and no FingerprintRecord
\* is modified by it
C35_Original ==
    [][ /\ ChannelRefused => channels' = channels
        /\ FingerprintRefused =>
              LET ev == CurEv("g1")
                  ch == ChanOf(ev)
              IN  /\ PersonalOf(channels') = PersonalOf(channels)
                  /\ channels'[ch].statistic =
                        TrendAfter(Without(applied.trend[ch], ev.seq)) ]_vars

\* C35 (amended): an event whose channel is refused at the channel cap changes
\* no counter at all.  An event whose fingerprint is refused at the
\* fingerprint cap changes no FingerprintRecord and not the directory, but
\* it has already been applied to the trend StatStore of its channel, which
\* keeps its views and clicks.
C35_DroppedByCap ==
    [][ /\ ChannelRefused =>
              /\ channels' = channels
              /\ \A ch \in ChanNames :
                    Without(applied'.trend[ch], CurEv("g1").seq) = applied'.trend[ch]
        /\ FingerprintRefused =>
              LET ev == CurEv("g1")
                  ch == ChanOf(ev)
              IN  /\ PersonalOf(channels') = PersonalOf(channels)
                  /\ channels'[ch].statistic = TrendAfter(applied.trend[ch])
                  /\ channels'[ch].statistic #
                        TrendAfter(Without(applied.trend[ch], ev.seq)) ]_vars

\* C35 witness: three events were processed; the one for channel "b" was
\* refused at the channel cap and the last one, for a second fingerprint of
\* "a", has just been refused at the fingerprint cap
C35_Witness ==
    /\ hist.op = "AggPersSlow"
    /\ ~hist.ok
    /\ nextSeq = 4
    /\ AllDrained
    /\ batch["g1"] = <<>>
    /\ DOMAIN channels = {"a", "default"}
    /\ \E i \in 1..Len(DrainedEvents) : DrainedEvents[i].channel = "b"
    /\ Len(applied.trend["a"]) = 2

----------------------------------------------------------------------------
\* Lazy deletion of restored fingerprints (SpecCold)

\* The step is a call of Flush that returned nil
FlushSucceeds ==
    /\ hist'.op = "Flush"
    /\ ~hist'.err
    /\ now' = now
    /\ nextSeq' = nextSeq

\* The fingerprints in the cold file of ch on disk dsk
InFile(dsk, ch) == DOMAIN Cold_loadColdFileFromDisk(dsk, ch).entries

\* The index a new process builds from disk dsk
FreshIndex(dsk) == Cold_RestoreIndex(NewColdStorage, dsk).index

\* C36 (as stated): after Restore(ch, fp) was served from the cold file, the
\* next successful Flush rewrites (or removes) the file of ch without fp, and
\* the index a fresh RestoreIndex builds has no fp for ch
C36_Original ==
    [][ FlushSucceeds =>
          \A ch \in ColdChans : \A fp \in restored[ch] :
              /\ fp \notin InFile(disk', ch)
              /\ fp \notin FreshIndex(disk')[ch] ]_vars

\* C36 (amended): after Restore(ch, fp) was served from the cold file, the
\* next successful Flush rewrites (or removes) the file of ch without fp, and
\* a fresh RestoreIndex has no fp for ch, unless fp was evicted again in
\* between: then the file holds fp with the data of that later eviction
\* (or the TTL pass of the same Flush dropped it)
C36_RestoredLeavesFile ==
    [][ FlushSucceeds =>
          \A ch \in ColdChans : \A fp \in restored[ch] :
              IF fp \in DOMAIN pending[ch]
              THEN fp \in InFile(disk', ch) =>
                     Cold_loadColdFileFromDisk(disk', ch).entries[fp]
                        = pending[ch][fp]
              ELSE /\ fp \notin InFile(disk', ch)
                   /\ fp \notin FreshIndex(disk')[ch] ]_vars

\* C36 witness: a successful Flush has just rewritten the file of "default":
\* f1, restored from the file, is gone from it and f2 is still there
C36_Witness ==
    /\ hist.op = "Flush"
    /\ ~hist.err
    /\ disk["default"].has
    /\ InFile(disk, "default") = {"f2"}
    /\ hist.lazy["default"] = {"f1"}
    /\ restored["default"] = {}
    /\ FreshIndex(disk)["default"] = {"f2"}

----------------------------------------------------------------------------
\* PersonalStatStore.IncStats at the fingerprint limit (SpecPSS)

\* The directory of ch holds maxFingerprints fingerprints or more
AtFingerprintCap(ch) ==
    /\ maxFingerprints >= 0
    /\ Len0(channels[ch].personalStats) >= maxFingerprints

\* C37: when the directory already holds maxFingerprints fingerprints, an
\* event for a fingerprint of the directory is still applied to its record
\* (the lookup finds it and the record takes the event's views), and an event
\* for a fingerprint that is neither in the directory nor in cold storage is
\* dropped: the directory, every record and the cold state stay as they were
C37_AtFingerprintCap ==
    [][ (pc["g1"] \in {"pers", "persSlow", "rec"} /\ pc'["g1"] # pc["g1"]) =>
          LET ev  == CurEv("g1")
              ch  == ChanOf(ev)
              fp  == ev.fingerprint
              dir == channels[ch].personalStats
          IN  AtFingerprintCap(ch) =>
                /\ (pc["g1"] = "pers" /\ fp \in DOMAIN dir) =>
                      /\ pc'["g1"] = "rec"
                      /\ channels' = channels
                /\ (pc["g1"] = "rec" /\ fp \in DOMAIN dir) =>
                      /\ channels'[ch].personalStats[fp] \in
                            FR_IncStats(dir[fp], ev, maxRecordsPerFP,
                                        evictionPercent, now)
                      /\ ViewsOf(FR_GetData(channels'[ch].personalStats[fp]), 1)
                            = ViewsOf(FR_GetData(dir[fp]), 1) + 1
                      /\ DOMAIN channels'[ch].personalStats = DOMAIN dir
                /\ (pc["g1"] = "persSlow" /\ fp \notin DOMAIN dir
                       /\ ~Cold_Has(CS, ch, fp)) =>
                      /\ pc'["g1"] = "loop"
                      /\ ~hist'.ok
                      /\ channels' = channels
                      /\ index' = index /\ pending' = pending
                      /\ restored' = restored /\ loaded' = loaded ]_vars

\* C37 witness: with maxFingerprints = 1 the directory of "a" holds f1, whose
\* record took a second event while the directory was full, and the event of
\* another fingerprint has just been dropped
C37_Witness ==
    /\ maxFingerprints = 1
    /\ hist.op = "AggPersSlow"
    /\ ~hist.ok
    /\ "a" \in DOMAIN channels
    /\ DOMAIN channels["a"].personalStats = {"f1"}
    /\ FR_GetData(channels["a"].personalStats["f1"])[1].views = 2

----------------------------------------------------------------------------
\* Specification SpecEquiv: a FingerprintRecord (frec) and a StatStore (the
\* trend store of the default channel) take the same InputStats, with
\* eviction off in both.  A run starts from what a long series of calls
\* leaves in both: ID 1 at the edge of the halving limit.

\* What n views of ID 1 and c clicks on it leave in a StatStore (n below the
\* halving limit)
EquivStore(n, c) ==
    IF n = 0 /\ c = 0 THEN EmptyMap ELSE [id \in {1} |-> Rec(n, c, 0)]

\* ... and in a FingerprintRecord: the bitmaps hold the first view and the
\* first click, counts the ID once a view or a click was repeated
EquivRecord(n, c) ==
    [viewed   |-> IF n > 0 THEN {1} ELSE {},
     clicked  |-> IF c > 0 THEN {1} ELSE {},
     counts   |-> IF n > 1 \/ c > 1 THEN [id \in {1} |-> Rec(n, c, 0)]
                  ELSE EmptyMap,
     lastSeen |-> 0]

\* the calls before a run: up to HalvingLimit - 1 views of ID 1 and up to
\* three clicks on it
EquivPrefixes ==
    { [n |-> n, c |-> c] :
        n \in {0, HalvingLimit - 2, HalvingLimit - 1}, c \in {0, 1, 3} }

\* payloads: first and repeated views and clicks, IDs seen as view only, as
\* click only and as both, and tokens both loops skip
EquivViews == { <<>>, <<"1">>, <<"2", "1">>, <<"-1", "2">> }

EquivClicks == { <<>>, <<"1">>, <<"2", "2">>, <<"", "3", "1">> }

EquivEvents ==
    { [channel |-> "", fingerprint |-> "f1", views |-> v, clicks |-> c] :
        v \in EquivViews, c \in EquivClicks }

InitEquiv ==
    /\ maxChannels = 1
    /\ maxRecords = 0 - 1
    /\ evictionPercent = NewStatStore_pct(10)
    /\ maxFingerprints = NewPersonalStatStore_max(0 - 1)
    /\ maxRecordsPerFP = 0 - 1
    /\ fingerprintTTL = 0
    /\ coldTTL = 0
    /\ coldOn = FALSE
    /\ InitBuffers
    /\ \E pre \in EquivPrefixes :
          /\ channels = [NewStatisticService_channels(maxChannels)
                            EXCEPT ![DefaultChannel].statistic =
                                      EquivStore(pre.n, pre.c)]
          /\ frec = EquivRecord(pre.n, pre.c)
    /\ cachedChannels = rebuildChannelCache(channels)
    /\ InitProcs
    /\ InitFiles
    /\ held = NoResult
    /\ InitCold
    /\ now = 0
    /\ InitLogs

\* s.IncStats(ev) and fr.IncStats(ev, maxRecordsPerFP, evictionPercent)
EquivIncStats(ev) ==
    /\ nextSeq <= MaxEvents
    /\ nextSeq' = nextSeq + 1
    /\ \E d \in StatStore_IncStats(Store, ev, maxRecords, evictionPercent) :
          SetChannel(DefaultChannel, "statistic", d)
    /\ frec' \in FR_IncStats(frec, ev, maxRecordsPerFP, evictionPercent, now)
    /\ hist' = [op |-> "EquivIncStats", pre |-> Store]
    /\ UNCHANGED <<cfgVars, locks, sched, fileVars, held, bufVars,
                   cachedChannels, procVars, coldVars, now, drained, applied>>

NextEquiv == \E ev \in EquivEvents : EquivIncStats(ev)

SpecEquiv == InitEquiv /\ [][NextEquiv]_vars

\* C38: with eviction disabled (maxRecords = maxRecordsPerFP = -1), after
\* every sequence of InputStats the dense map FingerprintRecord.GetData
\* returns equals the map of a StatStore fed the same sequence, halving
\* included
C38_SparseEqualsDense == FR_GetData(frec) = Store

\* C38 witness: both have halved ID 1 (its three clicks became two) and hold
\* an ID that was only clicked and one whose view is still bitmap-only
C38_Witness ==
    /\ hist.op = "EquivIncStats"
    /\ 1 \in DOMAIN hist.pre
    /\ hist.pre[1].views = HalvingLimit
    /\ Store[1] = Rec(HalvingLimit \div 2 + 1, 2, 1)
    /\ FR_GetData(frec)[1] = Store[1]
    /\ 3 \in DOMAIN Store /\ Store[3] = Rec(0, 1, 0)
    /\ 2 \in frec.viewed /\ 2 \notin DOMAIN frec.counts

----------------------------------------------------------------------------
\* Specification SpecRehydrate: dataToFingerprintRecord on dense maps of any
\* content (as PutData and a cold restore hand them over), then GetData

DenseIDs == {0, 1}

\* the records of a dense map: three non-negative integers, viewed or
\* clicked at least once
DenseRecs ==
    { Rec(v, c, f) : v \in (0..MaxCapCfg) \cup {HalvingLimit},
                     c \in 0..MaxCapCfg, f \in 0..1 }
       \ { Rec(0, 0, f) : f \in 0..1 }

DenseMaps == UNION { [ids -> DenseRecs] : ids \in SUBSET DenseIDs }

\* rec := dataToFingerprintRecord(d)
Rehydrate(d) ==
    /\ frec' = dataToFingerprintRecord(d, now)
    /\ hist' = [op |-> "dataToFingerprintRecord", d |-> d]
    /\ UNCHANGED <<cfgVars, locks, sched, bufVars, chanVars, procVars, coldVars,
                   fileVars, held, now, logVars>>

InitRehydrate ==
    /\ maxChannels = 1
    /\ maxRecords = 0 - 1
    /\ evictionPercent = NewStatStore_pct(10)
    /\ maxFingerprints = NewPersonalStatStore_max(0 - 1)
    /\ maxRecordsPerFP = 0 - 1
    /\ fingerprintTTL = 0
    /\ coldTTL = 0
    /\ coldOn = FALSE
    /\ InitBuffers
    /\ channels = NewStatisticService_channels(maxChannels)
    /\ cachedChannels = rebuildChannelCache(channels)
    /\ InitProcs
    /\ InitFiles
    /\ InitRecord
    /\ InitCold
    /\ now = 0
    /\ InitLogs

NextRehydrate == \E d \in DenseMaps : Rehydrate(d)

SpecRehydrate == InitRehydrate /\ [][NextRehydrate]_vars

\* C39: for every dense map d whose IDs are valid unsigned 32-bit values and
\* whose records each have views > 0 or clicks > 0, GetData of the record
\* dataToFingerprintRecord(d) builds returns a map equal to d
C39_RehydrateRoundTrip ==
    hist.op = "dataToFingerprintRecord" => FR_GetData(frec) = hist.d

\* C39 witness: a map was rehydrated whose ID 0 is bitmap-only (one view, one
\* click) and whose ID 1 has a counts entry for its ftr alone, and GetData
\* gives it back
C39_Witness ==
    /\ hist.op = "dataToFingerprintRecord"
    /\ DOMAIN hist.d = {0, 1}
    /\ hist.d[0] = Rec(1, 1, 0)
    /\ hist.d[1] = Rec(0, 1, 1)
    /\ DOMAIN frec.counts = {1}
    /\ FR_GetData(frec) = hist.d

----------------------------------------------------------------------------
\* prevBufSize, the capacity hint for the next ingest buffer (SpecTrend)

\* The step is the critical section of an AggregateStats call of g1
DrainStep == pc["g1"] = "idle" /\ pc'["g1"] = "loop"

\* C40 (as stated): after every drain prevBufSize equals the length of the
\* batch just drained, also when that batch is empty
C40_Original ==
    [][ DrainStep => prevBufSize' = Len(batch'["g1"]) ]_vars

\* C40 (amended): after a drain of a non-empty batch prevBufSize equals the
\* length of that batch; a drain of an empty batch leaves prevBufSize as it
\* was, so that it always is the length of the last non-empty batch drained
\* (0 before the first one)
C40_PrevBufSize ==
    [][ DrainStep =>
          /\ Len(batch'["g1"]) > 0 => prevBufSize' = Len(batch'["g1"])
          /\ Len(batch'["g1"]) = 0 => prevBufSize' = prevBufSize
          /\ prevBufSize' = IF drained' = <<>> THEN 0
                            ELSE Len(drained'[Len(drained')]) ]_vars

\* C40 witness: an empty batch has just been drained after one of two events,
\* and prevBufSize is still 2
C40_Witness ==
    /\ hist.op = "AggDrain"
    /\ hist.n = 0
    /\ batch["g1"] = <<>>
    /\ Len(drained) = 1
    /\ prevBufSize = 2
====
